---------------------------- MODULE Spec2Model ----------------------------
(***************************************************************************)
(* PenPlotter: job control and execution engine.                           *)
(*                                                                         *)
(*   Spec     PlotterController (controller.py): start_job / stop_job /    *)
(*            manual helpers, with job workers running PlotRenderer.run.   *)
(*   SpecRun  one PlotRenderer.run (rendering.py) called with a stop       *)
(*            event that a supervising thread may set at any time.         *)
(*   SpecPM   PlotManager (plot_manager.py) on a GRBLController            *)
(*            (grbl_controller.py), next to the control requests of the    *)
(*            legacy Renderer (pattern.py); both share the serial port     *)
(*            log rt_log.                                                  *)
(*                                                                         *)
(* Lengths are integers (mm); pen heights are integers in thousandths, so  *)
(* that HeightOne stands for the pen position 1.0 (fully up).              *)
(***************************************************************************)
EXTENDS Integers, Sequences, FiniteSets, TLC

\* ------------------------------------------------------------------------
\* Bounds of the model
\* ------------------------------------------------------------------------
MaxStrokes == 2     \* strokes per pattern
MaxFlush == 2       \* RenderOptions.flush_every ranges over 1..MaxFlush
MaxStarts == 2      \* start_job invocations
MaxStops == 1       \* stop_job invocations
MaxManual == 1      \* manual helper invocations (goto, jog, pen_height, ...)
MaxPMStarts == 1    \* PlotManager.start invocations
MaxCtl == 2         \* PlotManager.stop / pause / resume invocations
MaxLegacy == 2      \* legacy Renderer control requests
MaxGeoStrokes == 3  \* strokes of a pattern handed to a geometry pass
MaxRdpPts == 5      \* points of a stroke handed to _rdp
MaxAdds == 2        \* Pattern.add invocations
MaxSets == 1        \* set_pattern invocations
MaxServoCmds == 2   \* pen commands sent to the servo
MaxReads == 4       \* readline calls of one response
MaxConnCalls == 4   \* calls made on one GRBLController
MaxLiveReqs == 2    \* queue_live_xy calls made by the UI thread
MaxScripts == 2     \* run_script calls made by the UI thread
MaxRuns == 2        \* Renderer.run calls on one legacy Renderer
MaxRunReqs == 3     \* control requests made during those runs
MaxRunSegs == 2     \* segments of the stroke of a legacy run
ReadTimeout == 2    \* read_timeout_s, in time units
MaxAddObjs == 2     \* objects per Pattern.add invocation
WaitTimeout == 3    \* wait_idle's timeout, in poll intervals

\* ------------------------------------------------------------------------
\* Numbers
\* ------------------------------------------------------------------------
HeightOne == 10 * 100          \* pen position 1.0 in thousandths
lift_delta == 200              \* RenderOptions.lift_delta = 0.2
z_threshold == 20              \* RenderOptions.z_threshold = 0.02
CfgFeedDraw == 3000            \* Config.feed_draw

Min(a, b) == IF a < b THEN a ELSE b
Max(a, b) == IF a > b THEN a ELSE b
Abs(a) == IF a < 0 THEN -a ELSE a

RECURSIVE Reverse(_)
Reverse(s) == IF s = << >> THEN << >> ELSE Append(Reverse(Tail(s)), Head(s))

RECURSIVE SumX(_)
SumX(ps) == IF ps = << >> THEN 0 ELSE Head(ps)[1] + SumX(Tail(ps))

RECURSIVE SumY(_)
SumY(ps) == IF ps = << >> THEN 0 ELSE Head(ps)[2] + SumY(Tail(ps))

\* ------------------------------------------------------------------------
\* Geometry: points, strokes (Polyline), patterns
\* ------------------------------------------------------------------------
P00 == <<0, 0>>
P20 == <<24, 0>>
P22 == <<24, 24>>
P02 == <<0, 24>>
PA == <<2, 0>>
PB == <<4, 0>>

\* feed_draw: << >> for None, <<f>> for an override of f mm/min
Polyline(pts, rev, pen) ==
    [pts |-> pts, rev |-> rev, pen_id |-> pen, pen_pressure |-> -100,
     feed_draw |-> << >>]

WithFeed(it, f) == [it EXCEPT !.feed_draw = <<f>>]

\* a runner that ignores the orientation flag
DrawPtsForward(it) == it.pts

\* Polyline.endpoints and the pts = reversed(it.pts) if it._rev of the runners
DrawPts(it) == IF it.rev THEN Reverse(it.pts) ELSE it.pts

StrokeSet ==
    { WithFeed(Polyline(<<P22>>, FALSE, 0), 2000),
      Polyline(<<P00, P20>>, FALSE, 0),
      WithFeed(Polyline(<<P20, P22, P02>>, TRUE, 0), 1500),
      Polyline(<<P02, P00>>, TRUE, 1),
      WithFeed(Polyline(<<P22, P20, P00>>, FALSE, 1), 800),
      Polyline(<<P00, PA, PB, P20>>, FALSE, 0) }

RECURSIVE SeqsUpTo(_, _)
SeqsUpTo(S, n) ==
    IF n = 0 THEN { << >> }
    ELSE LET shorter == SeqsUpTo(S, n - 1)
         IN  shorter \cup { Append(s, x) : s \in shorter, x \in S }

PatternSet == SeqsUpTo(StrokeSet, MaxStrokes)

\* the patterns loaded into the controller
CtlPatterns == { <<Polyline(<<P00, P20>>, FALSE, 0)>> }

\* pen_filter: None (NoFilter) or a set of pen ids
NoFilter == [none |-> TRUE, pens |-> {}]
PenFilters == { NoFilter, [none |-> FALSE, pens |-> {0}] }
CtlPenFilters == { NoFilter }

ZModes == { "start", "centroid", "per_segment", "threshold" }
ZModeInputs == ZModes \cup { "bogus" }

\* ------------------------------------------------------------------------
\* Device: bilinear compensation and compensated pen position (grbl.py)
\* ------------------------------------------------------------------------
Comp == [x0 |-> 0, y0 |-> 0, x1 |-> 24, y1 |-> 24,
         hBL |-> 300, hBR |-> 400, hTL |-> 500, hTR |-> 800]

height_at(x, y) ==
    LET cx == Min(Max(x, Comp.x0), Comp.x1)
        cy == Min(Max(y, Comp.y0), Comp.y1)
        dx == Comp.x1 - Comp.x0
        dy == Comp.y1 - Comp.y0
        u  == cx - Comp.x0      \* u * dx in the source's units
        v  == cy - Comp.y0
    IN  IF dx <= 0 \/ dy <= 0 THEN Comp.hBL
        ELSE ( (dx - u) * (dy - v) * Comp.hBL + u * (dy - v) * Comp.hBR
               + (dx - u) * v * Comp.hTL + u * v * Comp.hTR ) \div (dx * dy)

apply_pos_offset(base, pos_offset) ==
    LET v == base + pos_offset
    IN  Min(HeightOne, IF v < 0 THEN 0 ELSE v)

compensated_pos(x, y, pos_offset) == apply_pos_offset(height_at(x, y), pos_offset)

\* ------------------------------------------------------------------------
\* State
\* ------------------------------------------------------------------------
VARIABLES
    opts,            \* RenderOptions of the renderer: z_mode, flush_every
    wk,              \* per job worker: position in PlotRenderer.run and its locals
    stop_set,        \* per job: whether its stop Event is set
    calls_at_stop,   \* per job: how many device calls its worker had made when
                     \* its stop Event was set (history)
    cur_xy,          \* PlotRenderer._cur_xy (shared by all runs of the renderer)
    pen_pos,         \* device: last commanded pen position
    progress,        \* PlotterState.progress_current / progress_total
    pattern,         \* PlotterController.pattern
    cpc,             \* per start_job invocation: its position
    job_thread,      \* PlotterController._job_thread (0: None)
    stop_event,      \* PlotterController._stop_event (0: None)
    job_state,       \* PlotterState.job_state
    last_error,      \* PlotterState.last_error
    nstops,          \* stop_job invocations so far
    rt_log,          \* control requests that took effect and the realtime bytes
                     \* written to the serial port, in order
    manual,          \* manual helper invocations so far
    manual_in_run,   \* those that called the device while a job worker was alive
    \* PlotManager (plot_manager.py) and its GRBLController
    pm_state,        \* PlotManager._state
    pm_stop,         \* PlotManager._stop_event is set
    pm_pause,        \* PlotManager._pause_event is set
    pm_job,          \* PlotManager._current_job (<< >>: None)
    pw,              \* the PlotManager worker thread: position in _run_job, locals
    start_pc,        \* position of the thread inside PlotManager.start
    nstarts,         \* PlotManager.start invocations so far
    nctl,            \* PlotManager.stop / pause / resume invocations so far
    last_status,     \* last message passed to status_cb
    pm_progress,     \* last value passed to progress_cb, as <<numerator, denominator>>
    gc_connected,    \* GRBLController: _serial is set and open
    pm_sent,         \* commands written to the device through send_command
    sent_at_pause,   \* Len(pm_sent) when pause() last set the pause event (history)
    \* legacy Renderer (pattern.py) control flags
    cancel_requested,  \* Renderer._cancel_requested
    lg_paused,         \* Renderer._pause_event is clear
    nlegacy,           \* request_cancel / request_pause / request_resume calls so far
    \* device configuration, one GRBL.wait_idle call, one Pattern under a pass
    feed_draw,         \* GRBL.cfg.feed_draw
    wi,                \* a thread inside GRBL.wait_idle: position, clock, replies
    gp                 \* geometry.Pattern under optimize_order_nn / combine_endpoints

engineVars == <<opts, wk, stop_set, calls_at_stop, cur_xy, pen_pos, progress>>
ctlVars == <<pattern, cpc, job_thread, stop_event, job_state, last_error, nstops,
             rt_log, manual, manual_in_run>>
pmVars == <<pm_state, pm_stop, pm_pause, pm_job, pw, start_pc, nstarts, nctl,
            last_status, pm_progress, gc_connected, pm_sent, sent_at_pause>>
legacyVars == <<cancel_requested, lg_paused, nlegacy>>
fnVars == <<feed_draw, wi, gp>>
vars == <<engineVars, ctlVars, pmVars, legacyVars, fnVars>>

Jobs == 1..MaxStarts

NoWorker ==
    [pc |-> "none", pattern |-> << >>, return_home |-> FALSE,
     pen_filter |-> NoFilter, items |-> << >>, k |-> 0, i |-> 0, cur_z |-> 0,
     total |-> 0, progressed |-> 0, exc |-> "", calls |-> << >>,
     feed0 |-> 0, draw_feeds |-> << >>, segs |-> << >>, travels |-> << >>]

\* the worker thread's state just before it calls self.renderer.run(...)
NewWorker(pat, home, filter) ==
    [NoWorker EXCEPT !.pc = "run", !.pattern = pat, !.return_home = home,
                     !.pen_filter = filter]

-----------------------------------------------------------------------------
\* ------------------------------------------------------------------------
\* PlotRenderer.run (rendering.py)
\* ------------------------------------------------------------------------
Passes(it, filter) == filter.none \/ it.pen_id \in filter.pens

RECURSIVE ExecItems(_, _)
ExecItems(pat, filter) ==
    IF pat = << >> THEN << >>
    ELSE IF Passes(Head(pat), filter)
         THEN <<Head(pat)>> \o ExecItems(Tail(pat), filter)
         ELSE ExecItems(Tail(pat), filter)

\* a total that counts points instead of segments
RECURSIVE TotalPoints(_)
TotalPoints(items) ==
    IF items = << >> THEN 0 ELSE Len(Head(items).pts) + TotalPoints(Tail(items))

RECURSIVE TotalSegments(_)
TotalSegments(items) ==
    IF items = << >> THEN 0
    ELSE Max(0, Len(Head(items).pts) - 1) + TotalSegments(Tail(items))

\* a loop that enters every stroke, short ones included
NextExecNoSkip(items, k) == k

\* Pattern.strokes (geometry.py): the strokes exported for the front end
RECURSIVE strokes(_)
strokes(pat) ==
    IF pat = << >> THEN << >>
    ELSE LET it == Head(pat)
             pts == DrawPts(it)
         IN  (IF Len(pts) < 2 THEN << >>
              ELSE << [points |-> pts, pen |-> it.pen_id,
                       pen_pressure |-> it.pen_pressure,
                       feed_draw |-> it.feed_draw] >>)
             \o strokes(Tail(pat))

\* _run_polyline returns at once for a stroke with fewer than 2 points:
\* the index of the next stroke at or after k that is executed
RECURSIVE NextExec(_, _)
NextExec(items, k) ==
    IF k > Len(items) THEN k
    ELSE IF Len(items[k].pts) < 2 THEN NextExec(items, k + 1)
    ELSE k

\* the for loop over exec_items, entered at stroke k; after it, return_home
EnterStroke(r, k) ==
    LET k2 == NextExec(r.items, k)
    IN  IF k2 > Len(r.items)
        THEN [r EXCEPT !.k = k2, !.i = 0,
                       !.pc = IF r.return_home THEN "home_pen" ELSE "returned"]
        ELSE [r EXCEPT !.k = k2, !.i = 0, !.pc = "travel_lift"]

Raise(r, e) == [r EXCEPT !.pc = "raised", !.exc = e]
Call(r, c) == [r EXCEPT !.calls = Append(@, c)]

CurPts(r) == DrawPts(r.items[r.k])

\* a lift that always goes to the top
LiftFull(xy) == HeightOne

\* _partial_lift_to_travel's target at xy
LiftTarget(xy) == Min(HeightOne, compensated_pos(xy[1], xy[2], 0) + lift_delta)

\* the height of the first pen command of a stroke, by z_mode
FirstZ(it) ==
    LET pts == DrawPts(it)
    IN  IF opts.z_mode = "start"
        THEN compensated_pos(pts[1][1], pts[1][2], it.pen_pressure)
        ELSE IF opts.z_mode = "centroid"
        THEN compensated_pos(SumX(pts) \div Len(pts), SumY(pts) \div Len(pts),
                             it.pen_pressure)
        ELSE compensated_pos((pts[1][1] + pts[2][1]) \div 2,
                             (pts[1][2] + pts[2][2]) \div 2, it.pen_pressure)

\* the height at the midpoint of segment i (from pts[i-1] to pts[i], 0-based)
SegZ(it, i) ==
    LET pts == DrawPts(it)
    IN  compensated_pos((pts[i][1] + pts[i + 1][1]) \div 2,
                        (pts[i][2] + pts[i + 1][2]) \div 2, it.pen_pressure)

\* a runner that falls back to the configured feed for a stroke without override
FeedOrConfigured(it, feed) ==
    IF it.feed_draw # << >> THEN it.feed_draw[1] ELSE CfgFeedDraw

\* if it.feed_draw is not None: self.g.cfg.feed_draw = int(it.feed_draw)
\* (feed_draw is an Optional[int]; int() of an int is that int)
ApplyFeedOverride(it, feed) ==
    IF it.feed_draw # << >> THEN it.feed_draw[1] ELSE feed

\* a threshold policy that reissues the pen command at every segment
NeedsPenAlways(z, cur_z) == TRUE

\* if abs(z - cur_z) > opts.z_threshold
NeedsPen(z, cur_z) == Abs(z - cur_z) > z_threshold

\* a runner that never waits inside a stroke
FlushNever(i, flush_every) == FALSE

\* if i % opts.flush_every == 0
FlushDue(i, flush_every) == i % flush_every = 0

\* report_progress(1) and the loop's next i
StepDone(r) == [r EXCEPT !.progressed = @ + 1, !.i = @ + 1, !.pc = "seg_check"]

run_begin(w) ==
    /\ wk[w].pc = "run"
    /\ LET items == ExecItems(wk[w].pattern, wk[w].pen_filter)
           r == [wk[w] EXCEPT !.items = items, !.total = TotalSegments(items),
                              !.progressed = 0, !.feed0 = feed_draw]
       IN  wk' = [wk EXCEPT ![w] = EnterStroke(r, 1)]
    /\ cur_xy' = <<0, 0>>
    /\ UNCHANGED <<opts, stop_set, calls_at_stop, pen_pos, progress, ctlVars, pmVars, legacyVars, fnVars>>

travel_lift(w) ==
    /\ wk[w].pc = "travel_lift"
    /\ LET target == IF cur_xy = << >> THEN HeightOne ELSE LiftTarget(cur_xy)
       IN  /\ wk' = [wk EXCEPT ![w] =
                        [Call(@, <<"pen_set", target>>) EXCEPT !.pc = "travel_move"]]
           /\ pen_pos' = target
    /\ UNCHANGED <<opts, stop_set, calls_at_stop, cur_xy, progress, ctlVars, pmVars, legacyVars, fnVars>>

\* _travel_to's rapid; when it returns, the stroke's feed override is applied
travel_move(w) ==
    /\ wk[w].pc = "travel_move"
    /\ LET p0 == CurPts(wk[w])[1]
           r  == [Call(wk[w], <<"move_xy", p0[1], p0[2]>>) EXCEPT
                     !.travels = Append(@, [n |-> Len(wk[w].calls) + 1, k |-> wk[w].k])]
       IN  \/ /\ wk' = [wk EXCEPT ![w] = [r EXCEPT !.pc = "first_pen"]]
              /\ cur_xy' = p0
              /\ feed_draw' = ApplyFeedOverride(wk[w].items[wk[w].k], feed_draw)
           \/ /\ wk' = [wk EXCEPT ![w] = Raise(r, "TimeoutError")]
              /\ UNCHANGED <<cur_xy, feed_draw>>
    /\ UNCHANGED <<opts, stop_set, calls_at_stop, pen_pos, progress, ctlVars, pmVars, legacyVars, wi, gp>>

first_pen(w) ==
    /\ wk[w].pc = "first_pen"
    /\ IF opts.z_mode \in ZModes
       THEN LET z == FirstZ(wk[w].items[wk[w].k])
            IN  /\ wk' = [wk EXCEPT ![w] =
                            [Call(@, <<"pen_set", z>>) EXCEPT
                                !.pc = "seg_check", !.i = 1,
                                !.cur_z = IF opts.z_mode = "threshold" THEN z ELSE 0]]
                /\ pen_pos' = z
       ELSE /\ wk' = [wk EXCEPT ![w] = Raise(@, "ValueError")]
            /\ UNCHANGED pen_pos
    /\ UNCHANGED <<opts, stop_set, calls_at_stop, cur_xy, progress, ctlVars, pmVars, legacyVars, fnVars>>

\* the head of the for i in range(1, len(pts)) loop and its stop check
seg_check(w) ==
    /\ wk[w].pc = "seg_check"
    /\ LET r == wk[w]
           it == r.items[r.k]
       IN  wk' = [wk EXCEPT ![w] =
                IF r.i > Len(it.pts) - 1 THEN [r EXCEPT !.pc = "post_wait"]
                ELSE IF stop_set[w] THEN Raise(r, "RuntimeError: Render cancelled")
                ELSE IF opts.z_mode = "per_segment" THEN [r EXCEPT !.pc = "seg_pen"]
                ELSE IF /\ opts.z_mode = "threshold"
                        /\ NeedsPen(SegZ(it, r.i), r.cur_z)
                     THEN [r EXCEPT !.pc = "seg_pen"]
                ELSE [r EXCEPT !.pc = "seg_draw"]]
    /\ UNCHANGED <<opts, stop_set, calls_at_stop, cur_xy, pen_pos, progress, ctlVars, pmVars, legacyVars, fnVars>>

seg_pen(w) ==
    /\ wk[w].pc = "seg_pen"
    /\ LET z == SegZ(wk[w].items[wk[w].k], wk[w].i)
       IN  /\ wk' = [wk EXCEPT ![w] =
                        [Call(@, <<"pen_set", z>>) EXCEPT
                            !.pc = "seg_draw",
                            !.cur_z = IF opts.z_mode = "threshold" THEN z ELSE @]]
           /\ pen_pos' = z
    /\ UNCHANGED <<opts, stop_set, calls_at_stop, cur_xy, progress, ctlVars, pmVars, legacyVars, fnVars>>

seg_draw(w) ==
    /\ wk[w].pc = "seg_draw"
    /\ LET r == wk[w]
           p == CurPts(r)[r.i + 1]
           r2 == [Call(r, <<"draw_xy", p[1], p[2]>>) EXCEPT
                     !.draw_feeds = Append(@, feed_draw),
                     !.segs = Append(@, [n |-> Len(r.calls) + 1, k |-> r.k, i |-> r.i])]
       IN  IF FlushDue(r.i, opts.flush_every)
           THEN /\ wk' = [wk EXCEPT ![w] = [r2 EXCEPT !.pc = "seg_flush"]]
                /\ UNCHANGED progress
           ELSE /\ wk' = [wk EXCEPT ![w] = StepDone(r2)]
                /\ progress' = <<r.progressed + 1, r.total>>
    /\ UNCHANGED <<opts, stop_set, calls_at_stop, cur_xy, pen_pos, ctlVars, pmVars, legacyVars, fnVars>>

seg_flush(w) ==
    /\ wk[w].pc = "seg_flush"
    /\ LET r == Call(wk[w], <<"wait_idle">>)
       IN  \/ /\ wk' = [wk EXCEPT ![w] = StepDone(r)]
              /\ progress' = <<r.progressed + 1, r.total>>
           \/ /\ wk' = [wk EXCEPT ![w] = Raise(r, "TimeoutError")]
              /\ UNCHANGED progress
    /\ UNCHANGED <<opts, stop_set, calls_at_stop, cur_xy, pen_pos, ctlVars, pmVars, legacyVars, fnVars>>

\* a stroke end that goes straight to the lift
PostWaitSkipped(r) == r

\* _run_polyline, after the draw loop: self.g.wait_idle()
PostWait(r) == Call(r, <<"wait_idle">>)

post_wait(w) ==
    /\ wk[w].pc = "post_wait"
    /\ LET r == PostWait(wk[w])
       IN  \/ wk' = [wk EXCEPT ![w] = [r EXCEPT !.pc = "post_lift"]]
           \/ wk' = [wk EXCEPT ![w] = Raise(r, "TimeoutError")]
    /\ UNCHANGED <<opts, stop_set, calls_at_stop, cur_xy, pen_pos, progress, ctlVars, pmVars, legacyVars, fnVars>>

post_lift(w) ==
    /\ wk[w].pc = "post_lift"
    /\ LET r == wk[w]
           last == CurPts(r)[Len(CurPts(r))]
           target == LiftTarget(last)
       IN  /\ wk' = [wk EXCEPT ![w] =
                        EnterStroke(Call(r, <<"pen_set", target>>), r.k + 1)]
           /\ pen_pos' = target
           /\ cur_xy' = last
    /\ UNCHANGED <<opts, stop_set, calls_at_stop, progress, ctlVars, pmVars, legacyVars, fnVars>>

home_pen(w) ==
    /\ wk[w].pc = "home_pen"
    /\ wk' = [wk EXCEPT ![w] =
                [Call(@, <<"pen_set", HeightOne>>) EXCEPT !.pc = "home_move"]]
    /\ pen_pos' = HeightOne
    /\ UNCHANGED <<opts, stop_set, calls_at_stop, cur_xy, progress, ctlVars, pmVars, legacyVars, fnVars>>

home_move(w) ==
    /\ wk[w].pc = "home_move"
    /\ LET r == Call(wk[w], <<"move_xy", 0, 0>>)
       IN  \/ /\ wk' = [wk EXCEPT ![w] = [r EXCEPT !.pc = "returned"]]
              /\ cur_xy' = <<0, 0>>
           \/ /\ wk' = [wk EXCEPT ![w] = Raise(r, "TimeoutError")]
              /\ UNCHANGED cur_xy
    /\ UNCHANGED <<opts, stop_set, calls_at_stop, pen_pos, progress, ctlVars, pmVars, legacyVars, fnVars>>

Engine(w) ==
    \/ run_begin(w)
    \/ travel_lift(w)
    \/ travel_move(w)
    \/ first_pen(w)
    \/ seg_check(w)
    \/ seg_pen(w)
    \/ seg_draw(w)
    \/ seg_flush(w)
    \/ post_wait(w)
    \/ post_lift(w)
    \/ home_pen(w)
    \/ home_move(w)

\* the supervising thread sets the run's stop event
set_stop_event ==
    /\ ~stop_set[1]
    /\ stop_set' = [stop_set EXCEPT ![1] = TRUE]
    /\ calls_at_stop' = [calls_at_stop EXCEPT ![1] = Len(wk[1].calls)]
    /\ UNCHANGED <<opts, wk, cur_xy, pen_pos, progress, ctlVars, pmVars, legacyVars, fnVars>>

-----------------------------------------------------------------------------
\* ------------------------------------------------------------------------
\* PlotterController (controller.py)
\* ------------------------------------------------------------------------
\* threading.Thread.is_alive(): started and not yet terminated
is_alive(j) == wk[j].pc \notin { "none", "unstarted", "dead" }

AnyWorkerAlive == \E j \in Jobs : is_alive(j)

\* set_pattern / load_pattern_dict / clear_pattern
set_pattern(pat) ==
    /\ pattern # pat
    /\ pattern' = pat
    /\ UNCHANGED <<engineVars, cpc, job_thread, stop_event, job_state, last_error,
                   nstops, rt_log, manual, manual_in_run, pmVars, legacyVars, fnVars>>

\* start_job, first part: the with self._lock block
start_job_locked(c) ==
    /\ cpc[c] = "ready"
    /\ IF job_thread # 0 /\ is_alive(job_thread)
       THEN /\ cpc' = [cpc EXCEPT ![c] = "raised"]     \* "Job already running"
            /\ UNCHANGED <<wk, stop_set, calls_at_stop, progress, stop_event,
                           job_state, last_error>>
       ELSE /\ \E home \in BOOLEAN, filter \in CtlPenFilters :
                  wk' = [wk EXCEPT ![c] =
                            [NewWorker(pattern, home, filter) EXCEPT !.pc = "none"]]
            /\ job_state' = "running"
            /\ last_error' = "None"
            /\ progress' = <<0, 0>>
            /\ stop_set' = [stop_set EXCEPT ![c] = FALSE]
            /\ calls_at_stop' = [calls_at_stop EXCEPT ![c] = 0]
            /\ stop_event' = c
            /\ cpc' = [cpc EXCEPT ![c] = "locked"]
    /\ UNCHANGED <<opts, cur_xy, pen_pos, pattern, job_thread, nstops, rt_log, manual, manual_in_run, pmVars, legacyVars, fnVars>>

\* thread = threading.Thread(target=worker); self._job_thread = thread
start_job_assign(c) ==
    /\ cpc[c] = "locked"
    /\ wk' = [wk EXCEPT ![c].pc = "unstarted"]
    /\ job_thread' = c
    /\ cpc' = [cpc EXCEPT ![c] = "assigned"]
    /\ UNCHANGED <<opts, stop_set, calls_at_stop, cur_xy, pen_pos, progress, pattern,
                   stop_event, job_state, last_error, nstops, rt_log,
                   manual, manual_in_run, pmVars, legacyVars, fnVars>>

\* thread.start()
start_job_start(c) ==
    /\ cpc[c] = "assigned"
    /\ wk' = [wk EXCEPT ![c].pc = "run"]
    /\ cpc' = [cpc EXCEPT ![c] = "returned"]
    /\ UNCHANGED <<opts, stop_set, calls_at_stop, cur_xy, pen_pos, progress, pattern,
                   job_thread, stop_event, job_state, last_error, nstops, rt_log, manual, manual_in_run, pmVars, legacyVars, fnVars>>

\* worker: renderer.run returned
worker_returned(w) ==
    /\ wk[w].pc = "returned"
    /\ job_state' = IF stop_set[w] THEN "cancelled" ELSE "idle"
    /\ wk' = [wk EXCEPT ![w].pc = "finally"]
    /\ UNCHANGED <<opts, stop_set, calls_at_stop, cur_xy, pen_pos, progress, pattern,
                   cpc, job_thread, stop_event, last_error, nstops, rt_log, manual, manual_in_run, pmVars, legacyVars, fnVars>>

\* worker: except RuntimeError / except Exception
worker_except(w) ==
    /\ wk[w].pc = "raised"
    /\ IF /\ wk[w].exc = "RuntimeError: Render cancelled"
          /\ stop_set[w]
       THEN /\ job_state' = "cancelled"
            /\ last_error' = "None"
       ELSE /\ job_state' = "error"
            /\ last_error' = wk[w].exc
    /\ wk' = [wk EXCEPT ![w].pc = "finally"]
    /\ UNCHANGED <<opts, stop_set, calls_at_stop, cur_xy, pen_pos, progress, pattern,
                   cpc, job_thread, stop_event, nstops, rt_log, manual,
                   manual_in_run, pmVars, legacyVars, fnVars>>

\* worker: finally: self._stop_event = None; the thread terminates
worker_finally(w) ==
    /\ wk[w].pc = "finally"
    /\ stop_event' = 0
    /\ wk' = [wk EXCEPT ![w].pc = "dead"]
    /\ UNCHANGED <<opts, stop_set, calls_at_stop, cur_xy, pen_pos, progress, pattern,
                   cpc, job_thread, job_state, last_error, nstops, rt_log, manual, manual_in_run, pmVars, legacyVars, fnVars>>

stop_job ==
    /\ nstops < MaxStops
    /\ nstops' = nstops + 1
    /\ IF stop_event = 0
       THEN UNCHANGED <<job_state, stop_set, calls_at_stop, rt_log>>
       ELSE /\ job_state' = "cancelling"
            /\ stop_set' = [stop_set EXCEPT ![stop_event] = TRUE]
            /\ calls_at_stop' = [calls_at_stop EXCEPT ![stop_event] =
                                    IF stop_set[stop_event] THEN @
                                    ELSE Len(wk[stop_event].calls)]
            /\ rt_log' = Append(rt_log, "stop_job")
    /\ UNCHANGED <<opts, wk, cur_xy, pen_pos, progress, pattern, cpc, job_thread,
                   stop_event, last_error, manual, manual_in_run, pmVars, legacyVars, fnVars>>

\* goto / jog / pen_up / pen_down / pen_height / set_origin_here: each calls the
\* device at once
ManualOps == { "goto", "jog", "pen_up", "pen_down", "set_origin_here" }

manual_cmd(op) ==
    /\ manual < MaxManual
    /\ manual' = manual + 1
    /\ manual_in_run' = IF AnyWorkerAlive THEN manual_in_run + 1 ELSE manual_in_run
    /\ pen_pos' = IF op \in { "goto", "pen_up" } THEN HeightOne
                  ELSE IF op = "pen_down" THEN 0
                  ELSE pen_pos
    /\ UNCHANGED <<opts, wk, stop_set, calls_at_stop, cur_xy, progress, pattern, cpc,
                   job_thread, stop_event, job_state, last_error, nstops, rt_log, pmVars, legacyVars, fnVars>>

-----------------------------------------------------------------------------
\* ------------------------------------------------------------------------
\* PlotManager (plot_manager.py) on a GRBLController (grbl_controller.py)
\* ------------------------------------------------------------------------
DefaultFeed == 3000            \* PenConfig.feed_rate

PenToolpath(feed, polylines) == [feed_rate |-> feed, polylines |-> polylines]

\* PlotJob.toolpaths
JobSet ==
    { << PenToolpath(DefaultFeed, << <<P00, P20, P22>>, <<P02, P00>> >>) >>,
      << PenToolpath(DefaultFeed, << <<P00, P20>> >>),
         PenToolpath(DefaultFeed, << <<P22, P02, P00>> >>) >> }

NoPW == [pc |-> "none", toolpaths |-> << >>, t |-> 0, p |-> 0, i |-> 0,
         completed |-> 0, failed |-> FALSE]

\* PlotManager.is_running
is_running == pw.pc \notin { "none", "dead" }

RECURSIVE TotalPolylines(_)
TotalPolylines(tps) ==
    IF tps = << >> THEN 0 ELSE Len(Head(tps).polylines) + TotalPolylines(Tail(tps))

CurPolyline == pw.toolpaths[pw.t].polylines[pw.p]

\* except GRBLConnectionError: status_cb("Device error: ..."); _state = "error"; return
DeviceError ==
    /\ last_status' = "Device error"
    /\ pm_state' = "error"
    /\ pw' = [pw EXCEPT !.pc = "fin_pen", !.failed = TRUE]
    /\ UNCHANGED pm_sent

\* start(), up to and including self._thread.start()
pm_start_launch(job) ==
    /\ start_pc = "idle"
    /\ nstarts < MaxPMStarts
    /\ nstarts' = nstarts + 1
    /\ IF is_running
       THEN UNCHANGED <<pm_stop, pm_pause, pm_job, pw, start_pc>>   \* raises
       ELSE /\ pm_stop' = FALSE
            /\ pm_pause' = FALSE
            /\ pm_job' = job
            /\ pw' = [NoPW EXCEPT !.pc = "begin"]
            /\ start_pc' = "launched"
    /\ UNCHANGED <<engineVars, ctlVars, legacyVars, fnVars, pm_state, nctl, last_status, pm_progress,
                   gc_connected, pm_sent, sent_at_pause>>

\* start(): self._state = "running"
pm_start_state ==
    /\ start_pc = "launched"
    /\ pm_state' = "running"
    /\ start_pc' = "started"
    /\ UNCHANGED <<engineVars, ctlVars, legacyVars, fnVars, pm_stop, pm_pause, pm_job, pw, nstarts, nctl,
                   last_status, pm_progress, gc_connected, pm_sent, sent_at_pause>>

\* start(): status_cb("Job started"); progress_cb(0.0)
pm_start_status ==
    /\ start_pc = "started"
    /\ last_status' = "Job started"
    /\ pm_progress' = <<0, 1>>
    /\ start_pc' = "idle"
    /\ UNCHANGED <<engineVars, ctlVars, legacyVars, fnVars, pm_state, pm_stop, pm_pause, pm_job, pw,
                   nstarts, nctl, gc_connected, pm_sent, sent_at_pause>>

pm_stop_call ==
    /\ nctl < MaxCtl
    /\ nctl' = nctl + 1
    /\ pm_stop' = TRUE
    /\ pm_pause' = FALSE
    /\ pm_state' = "stopping"
    /\ last_status' = "Job stopping ..."
    /\ rt_log' = Append(rt_log, "stop")
    /\ UNCHANGED <<engineVars, pattern, cpc, job_thread, stop_event, job_state, last_error,
                   nstops, manual, manual_in_run, legacyVars, fnVars, pm_job, pw, start_pc, nstarts, pm_progress,
                   gc_connected, pm_sent, sent_at_pause>>

pm_pause_call ==
    /\ nctl < MaxCtl
    /\ nctl' = nctl + 1
    /\ IF is_running
       THEN /\ pm_pause' = TRUE
            /\ pm_state' = "paused"
            /\ last_status' = "Job paused"
            /\ sent_at_pause' = Len(pm_sent)
       ELSE UNCHANGED <<pm_pause, pm_state, last_status, sent_at_pause>>
    /\ UNCHANGED <<engineVars, ctlVars, legacyVars, fnVars, pm_stop, pm_job, pw, start_pc, nstarts,
                   pm_progress, gc_connected, pm_sent>>

pm_resume_call ==
    /\ nctl < MaxCtl
    /\ nctl' = nctl + 1
    /\ IF is_running
       THEN /\ pm_pause' = FALSE
            /\ pm_state' = "running"
            /\ last_status' = "Job resumed"
            /\ rt_log' = IF pm_pause THEN Append(rt_log, "resume") ELSE rt_log
       ELSE UNCHANGED <<pm_pause, pm_state, last_status, rt_log>>
    /\ UNCHANGED <<engineVars, pattern, cpc, job_thread, stop_event, job_state, last_error,
                   nstops, manual, manual_in_run, legacyVars, fnVars, pm_stop, pm_job, pw, start_pc, nstarts,
                   pm_progress, gc_connected, pm_sent, sent_at_pause>>

\* GRBLController.disconnect
gc_disconnect ==
    /\ gc_connected
    /\ gc_connected' = FALSE
    /\ UNCHANGED <<engineVars, ctlVars, legacyVars, fnVars, pm_state, pm_stop, pm_pause, pm_job, pw,
                   start_pc, nstarts, nctl, last_status, pm_progress, pm_sent,
                   sent_at_pause>>

\* _run_job: toolpaths = list(self._current_job.toolpaths)
pw_begin ==
    /\ pw.pc = "begin"
    /\ pw' = [pw EXCEPT !.pc = "tp_check", !.toolpaths = pm_job, !.t = 1,
                        !.completed = 0]
    /\ UNCHANGED <<engineVars, ctlVars, legacyVars, fnVars, pm_state, pm_stop, pm_pause, pm_job, start_pc,
                   nstarts, nctl, last_status, pm_progress, gc_connected, pm_sent,
                   sent_at_pause>>

\* for toolpath in toolpaths: if self._stop_event.is_set(): break
pw_tp_check ==
    /\ pw.pc = "tp_check"
    /\ pw' = IF pw.t > Len(pw.toolpaths) \/ pm_stop
             THEN [pw EXCEPT !.pc = "fin_pen"]
             ELSE [pw EXCEPT !.pc = "tp_feed"]
    /\ UNCHANGED <<engineVars, ctlVars, legacyVars, fnVars, pm_state, pm_stop, pm_pause, pm_job, start_pc,
                   nstarts, nctl, last_status, pm_progress, gc_connected, pm_sent,
                   sent_at_pause>>

\* self.controller.send_command(f"F{toolpath.pen.feed_rate}")
pw_tp_feed ==
    /\ pw.pc = "tp_feed"
    /\ IF gc_connected
       THEN /\ pm_sent' = Append(pm_sent, <<"F", pw.toolpaths[pw.t].feed_rate>>)
            /\ pw' = [pw EXCEPT !.pc = "pl_check", !.p = 1]
            /\ UNCHANGED <<last_status, pm_state>>
       ELSE DeviceError
    /\ UNCHANGED <<engineVars, ctlVars, legacyVars, fnVars, pm_stop, pm_pause, pm_job, start_pc, nstarts,
                   nctl, pm_progress, gc_connected, sent_at_pause>>

\* for polyline in toolpath.polylines: if self._stop_event.is_set(): break
pw_pl_check ==
    /\ pw.pc = "pl_check"
    /\ pw' = IF pw.p > Len(pw.toolpaths[pw.t].polylines) \/ pm_stop
             THEN [pw EXCEPT !.pc = "tp_check", !.t = @ + 1]
             ELSE [pw EXCEPT !.pc = "pl_wait"]
    /\ UNCHANGED <<engineVars, ctlVars, legacyVars, fnVars, pm_state, pm_stop, pm_pause, pm_job, start_pc,
                   nstarts, nctl, last_status, pm_progress, gc_connected, pm_sent,
                   sent_at_pause>>

\* a wait condition that looks at the pause event alone
PauseHoldsIgnoringStop == pm_pause

\* _wait_if_paused: while self._pause_event.is_set() and not
\* self._stop_event.is_set()
PauseHolds == pm_pause /\ ~pm_stop

\* _wait_if_paused: leaves its loop once not (paused and not stopped)
pw_wait_if_paused ==
    /\ pw.pc = "pl_wait"
    /\ ~PauseHolds
    /\ pw' = [pw EXCEPT !.pc = "pl_up"]
    /\ UNCHANGED <<engineVars, ctlVars, legacyVars, fnVars, pm_state, pm_stop, pm_pause, pm_job, start_pc,
                   nstarts, nctl, last_status, pm_progress, gc_connected, pm_sent,
                   sent_at_pause>>

\* _run_polyline: self.controller.pen_up()
pw_pl_up ==
    /\ pw.pc = "pl_up"
    /\ IF gc_connected
       THEN /\ pm_sent' = Append(pm_sent, <<"M3", "up">>)
            /\ pw' = [pw EXCEPT !.pc = "pl_rapid"]
            /\ UNCHANGED <<last_status, pm_state>>
       ELSE DeviceError
    /\ UNCHANGED <<engineVars, ctlVars, legacyVars, fnVars, pm_stop, pm_pause, pm_job, start_pc, nstarts,
                   nctl, pm_progress, gc_connected, sent_at_pause>>

\* _run_polyline: self.controller.rapid_move(start_x, start_y)
pw_pl_rapid ==
    /\ pw.pc = "pl_rapid"
    /\ IF gc_connected
       THEN /\ pm_sent' = Append(pm_sent, <<"G0", CurPolyline[1]>>)
            /\ pw' = [pw EXCEPT !.pc = "pl_down"]
            /\ UNCHANGED <<last_status, pm_state>>
       ELSE DeviceError
    /\ UNCHANGED <<engineVars, ctlVars, legacyVars, fnVars, pm_stop, pm_pause, pm_job, start_pc, nstarts,
                   nctl, pm_progress, gc_connected, sent_at_pause>>

\* _run_polyline: self.controller.pen_down()
pw_pl_down ==
    /\ pw.pc = "pl_down"
    /\ IF gc_connected
       THEN /\ pm_sent' = Append(pm_sent, <<"M3", "down">>)
            /\ pw' = [pw EXCEPT !.pc = "seg_check", !.i = 2]
            /\ UNCHANGED <<last_status, pm_state>>
       ELSE DeviceError
    /\ UNCHANGED <<engineVars, ctlVars, legacyVars, fnVars, pm_stop, pm_pause, pm_job, start_pc, nstarts,
                   nctl, pm_progress, gc_connected, sent_at_pause>>

\* _run_polyline: for x, y in polyline[1:]: if self._stop_event.is_set(): break
pw_seg_check ==
    /\ pw.pc = "seg_check"
    /\ pw' = IF pw.i > Len(CurPolyline) \/ pm_stop
             THEN [pw EXCEPT !.pc = "pl_lift"]
             ELSE [pw EXCEPT !.pc = "seg_move"]
    /\ UNCHANGED <<engineVars, ctlVars, legacyVars, fnVars, pm_state, pm_stop, pm_pause, pm_job, start_pc,
                   nstarts, nctl, last_status, pm_progress, gc_connected, pm_sent,
                   sent_at_pause>>

\* _run_polyline: self.controller.linear_move(x, y, feed=feed_rate)
pw_seg_move ==
    /\ pw.pc = "seg_move"
    /\ IF gc_connected
       THEN /\ pm_sent' = Append(pm_sent, <<"G1", CurPolyline[pw.i]>>)
            /\ pw' = [pw EXCEPT !.pc = "seg_check", !.i = @ + 1]
            /\ UNCHANGED <<last_status, pm_state>>
       ELSE DeviceError
    /\ UNCHANGED <<engineVars, ctlVars, legacyVars, fnVars, pm_stop, pm_pause, pm_job, start_pc, nstarts,
                   nctl, pm_progress, gc_connected, sent_at_pause>>

\* _run_polyline: the closing self.controller.pen_up(); then completed += 1 and
\* progress_cb(completed / max(total_polylines, 1))
pw_pl_lift ==
    /\ pw.pc = "pl_lift"
    /\ IF gc_connected
       THEN /\ pm_sent' = Append(pm_sent, <<"M3", "up">>)
            /\ pw' = [pw EXCEPT !.pc = "pl_check", !.p = @ + 1, !.completed = @ + 1]
            /\ pm_progress' = <<pw.completed + 1, Max(TotalPolylines(pw.toolpaths), 1)>>
            /\ UNCHANGED <<last_status, pm_state>>
       ELSE /\ DeviceError
            /\ UNCHANGED pm_progress
    /\ UNCHANGED <<engineVars, ctlVars, legacyVars, fnVars, pm_stop, pm_pause, pm_job, start_pc, nstarts,
                   nctl, gc_connected, sent_at_pause>>

\* a cleanup that sends nothing
FinallySkipped(sent) == sent

\* finally: self.controller.pen_up()
FinallyPenUp(sent) == Append(sent, <<"M3", "up">>)

\* finally: self.controller.pen_up(); a failure here ends the thread
pw_fin_pen ==
    /\ pw.pc = "fin_pen"
    /\ IF gc_connected
       THEN /\ pm_sent' = FinallyPenUp(pm_sent)
            /\ pw' = [pw EXCEPT !.pc = "fin_state"]
       ELSE /\ pw' = [pw EXCEPT !.pc = "dead"]
            /\ UNCHANGED pm_sent
    /\ UNCHANGED <<engineVars, ctlVars, legacyVars, fnVars, pm_state, pm_stop, pm_pause, pm_job, start_pc,
                   nstarts, nctl, last_status, pm_progress, gc_connected, sent_at_pause>>

\* finally: self._state = "idle"; self._current_job = None
pw_fin_state ==
    /\ pw.pc = "fin_state"
    /\ pm_state' = "idle"
    /\ pm_job' = << >>
    /\ pw' = [pw EXCEPT !.pc = "fin_status"]
    /\ UNCHANGED <<engineVars, ctlVars, legacyVars, fnVars, pm_stop, pm_pause, start_pc, nstarts, nctl,
                   last_status, pm_progress, gc_connected, pm_sent, sent_at_pause>>

\* finally: status_cb("Job finished" / "Job stopped"); progress_cb(1.0 / 0.0)
pw_fin_status ==
    /\ pw.pc = "fin_status"
    /\ last_status' = IF ~pm_stop THEN "Job finished" ELSE "Job stopped"
    /\ pm_progress' = IF ~pm_stop THEN <<1, 1>> ELSE <<0, 1>>
    /\ pw' = [pw EXCEPT !.pc = "fin_clear"]
    /\ UNCHANGED <<engineVars, ctlVars, legacyVars, fnVars, pm_state, pm_stop, pm_pause, pm_job, start_pc,
                   nstarts, nctl, gc_connected, pm_sent, sent_at_pause>>

\* finally: self._stop_event.clear(); self._pause_event.clear(); the thread ends
pw_fin_clear ==
    /\ pw.pc = "fin_clear"
    /\ pm_stop' = FALSE
    /\ pm_pause' = FALSE
    /\ pw' = [pw EXCEPT !.pc = "dead"]
    /\ UNCHANGED <<engineVars, ctlVars, legacyVars, fnVars, pm_state, pm_job, start_pc, nstarts, nctl,
                   last_status, pm_progress, gc_connected, pm_sent, sent_at_pause>>

-----------------------------------------------------------------------------
\* ------------------------------------------------------------------------
\* Legacy Renderer (pattern.py): control requests, on a device with a serial port
\* ------------------------------------------------------------------------
LegacyUnchanged ==
    UNCHANGED <<engineVars, pattern, cpc, job_thread, stop_event, job_state,
                last_error, nstops, manual, manual_in_run, pmVars, fnVars>>

request_cancel ==
    /\ nlegacy < MaxLegacy
    /\ nlegacy' = nlegacy + 1
    /\ cancel_requested' = TRUE
    /\ lg_paused' = FALSE
    /\ rt_log' = rt_log \o <<"request_cancel", "!">>
    /\ LegacyUnchanged

request_pause ==
    /\ nlegacy < MaxLegacy
    /\ nlegacy' = nlegacy + 1
    /\ lg_paused' = TRUE
    /\ rt_log' = rt_log \o <<"request_pause", "!">>
    /\ UNCHANGED cancel_requested
    /\ LegacyUnchanged

request_resume ==
    /\ nlegacy < MaxLegacy
    /\ nlegacy' = nlegacy + 1
    /\ IF lg_paused
       THEN /\ lg_paused' = FALSE
            /\ rt_log' = rt_log \o <<"request_resume", "~">>
       ELSE UNCHANGED <<lg_paused, rt_log>>
    /\ UNCHANGED cancel_requested
    /\ LegacyUnchanged

-----------------------------------------------------------------------------
\* ------------------------------------------------------------------------
\* GRBL.status / is_idle / wait_idle (device/grbl.py, penplot_helper.py)
\* ------------------------------------------------------------------------
\* what one status() call can do: return the state token of the reply line
\* ("None": the line matches no state), or raise out of the serial port
StateTokens == { "Idle", "idle", "Run", "None" }
StatusOutcomes == StateTokens \cup { "SerialException" }

\* (s or "").upper()
Upper(tok) ==
    IF tok \in { "Idle", "idle" } THEN "IDLE"
    ELSE IF tok = "Run" THEN "RUN"
    ELSE ""

\* is_idle: try: return (status().get("state") or "").upper() == "IDLE"
\*          except Exception: return False
is_idle(outcome) ==
    IF outcome = "SerialException" THEN FALSE ELSE Upper(outcome) = "IDLE"

NoWait == [pc |-> "none", elapsed |-> 0, replies |-> << >>, exc |-> ""]

\* wait_idle: t0 = time.time()
wi_enter ==
    /\ wi.pc = "call"
    /\ wi' = [wi EXCEPT !.pc = "loop", !.elapsed = 0]
    /\ UNCHANGED <<engineVars, ctlVars, pmVars, legacyVars, feed_draw, gp>>

\* wait_idle: while time.time() - t0 < timeout ... raise TimeoutError
wi_loop ==
    /\ wi.pc = "loop"
    /\ wi' = IF wi.elapsed < WaitTimeout
             THEN [wi EXCEPT !.pc = "poll"]
             ELSE [wi EXCEPT !.pc = "raised", !.exc = "TimeoutError"]
    /\ UNCHANGED <<engineVars, ctlVars, pmVars, legacyVars, feed_draw, gp>>

\* wait_idle: if self.is_idle(): return
wi_poll(outcome) ==
    /\ wi.pc = "poll"
    /\ wi' = [wi EXCEPT !.replies = Append(@, outcome),
                        !.pc = IF is_idle(outcome) THEN "returned" ELSE "sleep"]
    /\ UNCHANGED <<engineVars, ctlVars, pmVars, legacyVars, feed_draw, gp>>

\* wait_idle: time.sleep(poll); d poll intervals pass before the next test
wi_sleep(d) ==
    /\ wi.pc = "sleep"
    /\ wi' = [wi EXCEPT !.pc = "loop", !.elapsed = @ + d]
    /\ UNCHANGED <<engineVars, ctlVars, pmVars, legacyVars, feed_draw, gp>>

-----------------------------------------------------------------------------
\* ------------------------------------------------------------------------
\* geometry.Pattern: optimize_order_nn (geometry.py; the same code in pattern.py)
\* ------------------------------------------------------------------------
\* points whose pairwise distances are all whole numbers, so that math.hypot
\* is exact on them
GO == <<0, 0>>
GA == <<5, 0>>
GB == <<9, 0>>
GC == <<16, 0>>
GD == <<-5, 0>>
GE == <<0, 12>>

RECURSIVE SqrtFrom(_, _)
SqrtFrom(q, d) == IF d * d >= q THEN d ELSE SqrtFrom(q, d + 1)

\* math.hypot(a[0] - b[0], a[1] - b[1])
dist(a, b) ==
    SqrtFrom((a[1] - b[1]) * (a[1] - b[1]) + (a[2] - b[2]) * (a[2] - b[2]), 0)

\* Polyline.endpoints
endpoints(it) ==
    IF it.pts = << >> THEN <<GO, GO>>
    ELSE IF it.rev THEN <<it.pts[Len(it.pts)], it.pts[1]>>
    ELSE <<it.pts[1], it.pts[Len(it.pts)]>>

GeoStrokeSet ==
    { Polyline(<<GA, GD>>, FALSE, 0),
      Polyline(<<GO, GC>>, FALSE, 0),
      Polyline(<<GC, GA>>, TRUE, 0),
      Polyline(<<GA, GE, GB>>, FALSE, 1),
      Polyline(<<GE>>, FALSE, 0),
      Polyline(<<GD, GB>>, TRUE, 1),
      Polyline(<< >>, FALSE, 0) }

GeoPatterns == SeqsUpTo(GeoStrokeSet, MaxGeoStrokes)
StartPoints == { GO, GB }

\* cost, cfg = (d_fwd, False) if d_fwd <= d_rev else (d_rev, True)
CostCfg(cur, it) ==
    LET d_fwd == dist(cur, endpoints(it)[1])
        d_rev == dist(cur, endpoints(it)[2])
    IN  IF d_fwd <= d_rev THEN [cost |-> d_fwd, cfg |-> FALSE]
        ELSE [cost |-> d_rev, cfg |-> TRUE]

\* the for i, it in enumerate(remaining) scan from index i on; best_i = 0
\* stands for None (best_cost = inf)
RECURSIVE BestScan(_, _, _, _)
BestScan(cur, remaining, i, best) ==
    IF i > Len(remaining) THEN best
    ELSE LET c == CostCfg(cur, remaining[i].it)
         IN  IF best.i = 0 \/ c.cost < best.cost
             THEN BestScan(cur, remaining, i + 1,
                           [i |-> i, cost |-> c.cost, cfg |-> c.cfg])
             ELSE BestScan(cur, remaining, i + 1, best)

\* a pop that always takes the head of the list
PopHead(seq, i) == Tail(seq)

\* remaining.pop(best_i): the list without element i
PopAt(seq, i) == SubSeq(seq, 1, i - 1) \o SubSeq(seq, i + 1, Len(seq))

\* the least distance from cur to an endpoint over the strokes of a list
RECURSIVE NearestEndpoint(_, _)
NearestEndpoint(cur, remaining) ==
    LET it == Head(remaining).it
        here == Min(dist(cur, endpoints(it)[1]), dist(cur, endpoints(it)[2]))
    IN  IF Len(remaining) = 1 THEN here
        ELSE Min(here, NearestEndpoint(cur, Tail(remaining)))

\* remaining = list(self.items); ordered = []; cur = start_xy. Every stroke
\* carries the index it had in the input (idx); each ordered entry records the
\* position it was chosen from and the nearest endpoint distance then (history)
NNStart(pat, start_xy) ==
    [op |-> "nn", pc |-> "loop", input |-> pat, start |-> start_xy,
     remaining |-> [n \in 1..Len(pat) |-> [it |-> pat[n], idx |-> n]],
     ordered |-> << >>, cur |-> start_xy, iters |-> 0, items |-> pat]

\* one iteration of the while remaining loop
nn_step ==
    /\ gp # << >> /\ gp.op = "nn" /\ gp.pc = "loop"
    /\ gp.remaining # << >>
    /\ LET best == BestScan(gp.cur, gp.remaining, 1,
                            [i |-> 0, cost |-> 0, cfg |-> FALSE])
           it   == [gp.remaining[best.i].it EXCEPT !.rev = best.cfg]
       IN  gp' = [gp EXCEPT
                    !.remaining = PopAt(@, best.i),
                    !.ordered = Append(@, [it |-> it,
                                           idx |-> gp.remaining[best.i].idx,
                                           from |-> gp.cur,
                                           nearest |-> NearestEndpoint(gp.cur, gp.remaining)]),
                    !.cur = endpoints(it)[2],
                    !.iters = @ + 1]
    /\ UNCHANGED <<engineVars, ctlVars, pmVars, legacyVars, feed_draw, wi>>

\* the loop ends: self.items = ordered
nn_finish ==
    /\ gp # << >> /\ gp.op = "nn" /\ gp.pc = "loop"
    /\ gp.remaining = << >>
    /\ gp' = [gp EXCEPT !.pc = "done",
                        !.items = [n \in 1..Len(gp.ordered) |-> gp.ordered[n].it]]
    /\ UNCHANGED <<engineVars, ctlVars, pmVars, legacyVars, feed_draw, wi>>

\* PlotRenderer._travel_estimate
RECURSIVE travel_estimate(_, _)
travel_estimate(items, cur) ==
    IF items = << >> THEN 0
    ELSE dist(endpoints(Head(items))[1], cur)
         + travel_estimate(Tail(items), endpoints(Head(items))[2])

\* Pattern.total_length
RECURSIVE PolyLength(_)
PolyLength(pts) ==
    IF Len(pts) < 2 THEN 0 ELSE dist(pts[1], pts[2]) + PolyLength(Tail(pts))

RECURSIVE total_length(_)
total_length(items) ==
    IF items = << >> THEN 0
    ELSE PolyLength(Head(items).pts) + total_length(Tail(items))

\* Pattern.bounding_box (<< >>: None)
bounding_box(items) ==
    LET all == UNION { { items[n].pts[m] : m \in 1..Len(items[n].pts) } :
                       n \in 1..Len(items) }
        xs == { q[1] : q \in all }
        ys == { q[2] : q \in all }
        lo(S) == CHOOSE v \in S : \A u \in S : v <= u
        hi(S) == CHOOSE v \in S : \A u \in S : v >= u
    IN  IF all = {} THEN << >>
        ELSE << <<lo(xs), lo(ys)>>, <<hi(xs), hi(ys)>> >>

-----------------------------------------------------------------------------
\* ------------------------------------------------------------------------
\* geometry.Pattern.combine_endpoints (penplotter/geometry.py)
\* ------------------------------------------------------------------------
\* join_tol_mm, in the whole millimetres of the model's points
JoinTols == { 0, 4 }

\* chains: (pts, pen_pressure, feed_draw, pen_id) of every stroke with points,
\* its points in drawing orientation
RECURSIVE Chains(_)
Chains(items) ==
    IF items = << >> THEN << >>
    ELSE (IF DrawPts(Head(items)) # << >>
          THEN << [pts |-> DrawPts(Head(items)),
                   pen_pressure |-> Head(items).pen_pressure,
                   feed_draw |-> Head(items).feed_draw,
                   pen_id |-> Head(items).pen_id] >>
          ELSE << >>)
         \o Chains(Tail(items))

\* variant of FirstJoin that does not compare pens
RECURSIVE FirstJoinAnyPen(_, _, _, _, _, _)
FirstJoinAnyPen(chains, used, pen, tail, tol, j) ==
    IF j > Len(chains) THEN 0
    ELSE IF used[j]
         THEN FirstJoinAnyPen(chains, used, pen, tail, tol, j + 1)
    ELSE IF dist(tail, chains[j].pts[1]) <= tol THEN j
    ELSE FirstJoinAnyPen(chains, used, pen, tail, tol, j + 1)

\* the for j, other in enumerate(chains) scan: the first unused chain of the
\* same pen whose head lies within tol of tail (0: none)
RECURSIVE FirstJoin(_, _, _, _, _, _)
FirstJoin(chains, used, pen, tail, tol, j) ==
    IF j > Len(chains) THEN 0
    ELSE IF used[j] \/ chains[j].pen_id # pen
         THEN FirstJoin(chains, used, pen, tail, tol, j + 1)
    ELSE IF dist(tail, chains[j].pts[1]) <= tol THEN j
    ELSE FirstJoin(chains, used, pen, tail, tol, j + 1)

\* the while changed loop on the chain under construction
RECURSIVE Extend(_, _, _, _, _, _)
Extend(chains, used, pen, pts, tol, splices) ==
    LET j == FirstJoin(chains, used, pen, pts[Len(pts)], tol, 1)
    IN  IF j = 0 THEN [pts |-> pts, used |-> used, splices |-> splices]
        ELSE Extend(chains, [used EXCEPT ![j] = TRUE], pen,
                    pts \o Tail(chains[j].pts), tol, splices + 1)

\* an output stroke that falls back to the default feed
MergedDefaultFeed(c, pts) == [c EXCEPT !.pts = pts, !.feed_draw = << >>]

\* merged.append((pts_i, press_i, fd_i, pen_i)): the grown chain with the
\* pressure, feed and pen of the chain it was started from
Merged(c, pts) == [c EXCEPT !.pts = pts]

\* strokes of one pen that differ in feed override and pen pressure
ParamStrokes ==
    { WithFeed(Polyline(<<GO, GC>>, FALSE, 0), 1500),
      [Polyline(<<GC, GA>>, FALSE, 0) EXCEPT !.pen_pressure = 50],
      Polyline(<<GA, GD>>, FALSE, 0) }

ParamPatterns == SeqsUpTo(ParamStrokes, MaxGeoStrokes)

\* the implementations of combine_endpoints
CombineImpls == { "geometry", "legacy" }

\* owner[n] records the output stroke that received chain n (0: none yet)
CombineStart(impl, pat, tol) ==
    [op |-> "combine", impl |-> impl, pc |-> "chains", input |-> pat, tol |-> tol,
     chains |-> Chains(pat), used |-> [n \in 1..Len(Chains(pat)) |-> FALSE],
     owner |-> [n \in 1..Len(Chains(pat)) |-> 0],
     i |-> 1, merged |-> << >>, splices |-> 0, items |-> pat, report |-> << >>,
     round |-> 1, first_merges |-> 0]

\* chains taken by the output stroke under construction
Owned(g, used2) ==
    [n \in 1..Len(g.chains) |->
        IF used2[n] /\ ~g.used[n] THEN Len(g.merged) + 1 ELSE g.owner[n]]

\* pattern.py: one pass of for j in range(len(chains)) over the growing chain
\* (no break after a splice), trying the four endpoint cases in order
RECURSIVE LegacyScan(_, _, _, _, _, _, _, _, _)
LegacyScan(chains, used, i, pen, chain, tol, j, splices, changed) ==
    IF j > Len(chains)
    THEN [pts |-> chain, used |-> used, splices |-> splices, changed |-> changed]
    ELSE IF used[j] \/ j = i \/ chains[j].pen_id # pen
         THEN LegacyScan(chains, used, i, pen, chain, tol, j + 1, splices, changed)
    ELSE LET pj == chains[j].pts
             hd == chain[1]
             tl == chain[Len(chain)]
             u2 == [used EXCEPT ![j] = TRUE]
         IN  IF dist(tl, pj[1]) <= tol
             THEN LegacyScan(chains, u2, i, pen, chain \o Tail(pj), tol, j + 1,
                             splices + 1, TRUE)
             ELSE IF dist(tl, pj[Len(pj)]) <= tol
             THEN LegacyScan(chains, u2, i, pen,
                             chain \o Reverse(SubSeq(pj, 1, Len(pj) - 1)), tol, j + 1,
                             splices + 1, TRUE)
             ELSE IF dist(hd, pj[Len(pj)]) <= tol
             THEN LegacyScan(chains, u2, i, pen,
                             SubSeq(pj, 1, Len(pj) - 1) \o chain, tol, j + 1,
                             splices + 1, TRUE)
             ELSE IF dist(hd, pj[1]) <= tol
             THEN LegacyScan(chains, u2, i, pen, Reverse(Tail(pj)) \o chain, tol, j + 1,
                             splices + 1, TRUE)
             ELSE LegacyScan(chains, used, i, pen, chain, tol, j + 1, splices, changed)

\* a chain grown by a single pass over the other chains
LegacyExtendOnce(chains, used, i, pen, chain, tol, splices) ==
    LegacyScan(chains, used, i, pen, chain, tol, 1, splices, FALSE)

\* pattern.py: while changed
RECURSIVE LegacyExtend(_, _, _, _, _, _, _)
LegacyExtend(chains, used, i, pen, chain, tol, splices) ==
    LET r == LegacyScan(chains, used, i, pen, chain, tol, 1, splices, FALSE)
    IN  IF r.changed
        THEN LegacyExtend(chains, r.used, i, pen, r.pts, tol, r.splices)
        ELSE r

\* one iteration of for i, chain in enumerate(chains)
cb_chain ==
    /\ gp # << >> /\ gp.op = "combine" /\ gp.pc = "chains"
    /\ gp.impl = "geometry"
    /\ gp.i <= Len(gp.chains)
    /\ IF gp.used[gp.i]
       THEN gp' = [gp EXCEPT !.i = @ + 1]
       ELSE LET c == gp.chains[gp.i]
                e == Extend(gp.chains, [gp.used EXCEPT ![gp.i] = TRUE], c.pen_id,
                            c.pts, gp.tol, 0)
            IN  gp' = [gp EXCEPT !.i = @ + 1,
                                 !.used = e.used,
                                 !.owner = Owned(gp, e.used),
                                 !.splices = @ + e.splices,
                                 !.merged = Append(@, Merged(c, e.pts))]
    /\ UNCHANGED <<engineVars, ctlVars, pmVars, legacyVars, feed_draw, wi>>

\* pattern.py: one iteration of for i in range(len(chains))
lg_chain ==
    /\ gp # << >> /\ gp.op = "combine" /\ gp.pc = "chains"
    /\ gp.impl = "legacy"
    /\ gp.i <= Len(gp.chains)
    /\ IF gp.used[gp.i]
       THEN gp' = [gp EXCEPT !.i = @ + 1]
       ELSE LET c == gp.chains[gp.i]
                e == LegacyExtend(gp.chains, [gp.used EXCEPT ![gp.i] = TRUE], gp.i,
                                  c.pen_id, c.pts, gp.tol, 0)
            IN  gp' = [gp EXCEPT !.i = @ + 1,
                                 !.used = e.used,
                                 !.owner = Owned(gp, e.used),
                                 !.splices = @ + e.splices,
                                 !.merged = Append(@, Merged(c, e.pts))]
    /\ UNCHANGED <<engineVars, ctlVars, pmVars, legacyVars, feed_draw, wi>>

\* after the loop: self.items is rebuilt and the report is formatted
cb_finish ==
    /\ gp # << >> /\ gp.op = "combine" /\ gp.pc = "chains"
    /\ gp.impl = "geometry"
    /\ gp.i > Len(gp.chains)
    /\ gp' = [gp EXCEPT
                !.pc = "done",
                !.items = [n \in 1..Len(gp.merged) |->
                             [pts |-> gp.merged[n].pts, rev |-> FALSE,
                              pen_id |-> gp.merged[n].pen_id,
                              pen_pressure |-> gp.merged[n].pen_pressure,
                              feed_draw |-> gp.merged[n].feed_draw]],
                !.report = [merges |-> Len(gp.merged),
                            before |-> Max(0, Len(gp.input) - 1),
                            after |-> Max(0, Len(gp.merged) - 1),
                            saved |-> Max(0, Len(gp.input) - 1)
                                      - Max(0, Len(gp.merged) - 1)]]
    /\ UNCHANGED <<engineVars, ctlVars, pmVars, legacyVars, feed_draw, wi>>

\* pattern.py: items rebuilt, report formatted with merges_done
lg_finish ==
    /\ gp # << >> /\ gp.op = "combine" /\ gp.pc = "chains"
    /\ gp.impl = "legacy"
    /\ gp.i > Len(gp.chains)
    /\ gp' = [gp EXCEPT
                !.pc = "done",
                !.items = [n \in 1..Len(gp.merged) |->
                             [pts |-> gp.merged[n].pts, rev |-> FALSE,
                              pen_id |-> gp.merged[n].pen_id,
                              pen_pressure |-> gp.merged[n].pen_pressure,
                              feed_draw |-> gp.merged[n].feed_draw]],
                !.report = [merges |-> gp.splices,
                            before |-> Max(0, Len(gp.input) - 1),
                            after |-> Max(0, Len(gp.merged) - 1),
                            saved |-> Max(0, Len(gp.input) - 1)
                                      - Max(0, Len(gp.merged) - 1)]]
    /\ UNCHANGED <<engineVars, ctlVars, pmVars, legacyVars, feed_draw, wi>>

\* pattern.py: combine_endpoints called again on its own result, with the
\* same tolerance
lg_again ==
    /\ gp # << >> /\ gp.op = "combine" /\ gp.pc = "done"
    /\ gp.impl = "legacy" /\ gp.round = 1
    /\ gp' = [CombineStart("legacy", gp.items, gp.tol) EXCEPT
                 !.round = 2, !.first_merges = gp.report.merges]
    /\ UNCHANGED <<engineVars, ctlVars, pmVars, legacyVars, feed_draw, wi>>

-----------------------------------------------------------------------------
\* ------------------------------------------------------------------------
\* geometry._rdp (penplotter/geometry.py), identical to pattern._rdp
\* ------------------------------------------------------------------------
RdpPoints == { <<0, 0>>, <<4, 0>>, <<8, 0>>, <<4, 3>>, <<2, 1>> }
RdpInputs == SeqsUpTo(RdpPoints, MaxRdpPts)
\* eps (max_dev_mm), in whole millimetres
EpsSet == { 1, 2 }

\* the factor by which SegDist2 scales the squared distance to segment ab
SegScale(a, b) ==
    LET len2 == (b[1] - a[1]) * (b[1] - a[1]) + (b[2] - a[2]) * (b[2] - a[2])
    IN  IF len2 = 0 THEN 1 ELSE len2

\* d * d * SegScale(a, b) for d the distance from p to segment ab, with
\* t = clamp(((p - a) . (b - a)) / |b - a|^2, 0, 1) and c = a + t (b - a)
SegDist2(a, b, p) ==
    LET dx == b[1] - a[1]
        dy == b[2] - a[2]
        len2 == dx * dx + dy * dy
        dot == (p[1] - a[1]) * dx + (p[2] - a[2]) * dy
        cross == (p[1] - a[1]) * dy - (p[2] - a[2]) * dx
        pa2 == (p[1] - a[1]) * (p[1] - a[1]) + (p[2] - a[2]) * (p[2] - a[2])
        pb2 == (p[1] - b[1]) * (p[1] - b[1]) + (p[2] - b[2]) * (p[2] - b[2])
    IN  IF len2 = 0 THEN pa2
        ELSE IF dot <= 0 THEN pa2 * len2
        ELSE IF dot >= len2 THEN pb2 * len2
        ELSE cross * cross

\* for i in range(i0 + 1, i1): the first point of greatest distance
\* (max_d starts at -1.0, idx at None, written 0)
RECURSIVE RdpScan(_, _, _, _, _, _)
RdpScan(pts, i0, i1, i, max_d, idx) ==
    IF i >= i1 THEN [max_d |-> max_d, idx |-> idx]
    ELSE LET d == SegDist2(pts[i0], pts[i1], pts[i])
         IN  IF d > max_d THEN RdpScan(pts, i0, i1, i + 1, d, i)
             ELSE RdpScan(pts, i0, i1, i + 1, max_d, idx)

\* variant of KeepInit that marks no point
KeepNone(n) == [k \in 1..n |-> FALSE]

\* keep = [False] * len(pts); keep[0] = keep[-1] = True
KeepInit(n) == [k \in 1..n |-> k = 1 \/ k = n]

\* [p for p, k in zip(pts, keep) if k]
RECURSIVE Kept(_, _, _)
Kept(pts, keep, k) ==
    IF k > Len(pts) THEN << >>
    ELSE (IF keep[k] THEN << pts[k] >> ELSE << >>) \o Kept(pts, keep, k + 1)

RdpStart(pts, eps) ==
    [op |-> "rdp", pc |-> "call", pts |-> pts, eps |-> eps,
     stack |-> << >>, keep |-> << >>, out |-> << >>]

\* entry: short inputs are returned as a copy
rdp_call ==
    /\ gp # << >> /\ gp.op = "rdp" /\ gp.pc = "call"
    /\ IF Len(gp.pts) <= 2
       THEN gp' = [gp EXCEPT !.pc = "done", !.out = gp.pts]
       ELSE gp' = [gp EXCEPT !.pc = "loop",
                             !.stack = << <<1, Len(gp.pts)>> >>,
                             !.keep = KeepInit(Len(gp.pts))]
    /\ UNCHANGED <<engineVars, ctlVars, pmVars, legacyVars, feed_draw, wi>>

\* one iteration of while stack
rdp_iter ==
    /\ gp # << >> /\ gp.op = "rdp" /\ gp.pc = "loop"
    /\ gp.stack # << >>
    /\ LET top == gp.stack[Len(gp.stack)]
           rest == SubSeq(gp.stack, 1, Len(gp.stack) - 1)
           i0 == top[1]
           i1 == top[2]
           r == RdpScan(gp.pts, i0, i1, i0 + 1, -1, 0)
       IN  IF r.max_d > gp.eps * gp.eps * SegScale(gp.pts[i0], gp.pts[i1]) /\ r.idx # 0
           THEN gp' = [gp EXCEPT !.keep[r.idx] = TRUE,
                                 !.stack = rest \o << <<i0, r.idx>>, <<r.idx, i1>> >>]
           ELSE gp' = [gp EXCEPT !.stack = rest]
    /\ UNCHANGED <<engineVars, ctlVars, pmVars, legacyVars, feed_draw, wi>>

\* the stack is empty: the kept points are returned
rdp_return ==
    /\ gp # << >> /\ gp.op = "rdp" /\ gp.pc = "loop"
    /\ gp.stack = << >>
    /\ gp' = [gp EXCEPT !.pc = "done", !.out = Kept(gp.pts, gp.keep, 1)]
    /\ UNCHANGED <<engineVars, ctlVars, pmVars, legacyVars, feed_draw, wi>>

-----------------------------------------------------------------------------
\* ------------------------------------------------------------------------
\* GRBL.pen_set (penplotter/device/grbl.py), identical to penplot_helper.py
\* ------------------------------------------------------------------------
\* pen positions in thousandths; pos arguments include values outside [0, 1]
PenGrid == { k * 100 : k \in 0..10 }
PenArgs == PenGrid \cup { -200, 1200 }
\* step: << >> is None, <<v>> a value
PenSteps == { << >>, <<0>>, <<100>>, <<250>>, <<300>> }

\* float(max(0.0, min(1.0, pos)))
Clamp01(v) == Max(0, Min(HeightOne, v))

\* variant of OneCommand that never ramps
OneCommandAlways(step, target, current) == TRUE

\* step is None or step <= 0.0 or abs(target - current) <= step
OneCommand(step, target, current) ==
    \/ step = << >>
    \/ step[1] <= 0
    \/ Abs(target - current) <= step[1]

PenSetStart(pos, step) ==
    [op |-> "pen_set", pc |-> "call", pos |-> pos, step |-> step,
     target |-> 0, current |-> 0, direction |-> 0, p |-> 0, issued |-> << >>]

\* entry: clamp, then either the single command or the start of the ramp
ps_call ==
    /\ gp # << >> /\ gp.op = "pen_set" /\ gp.pc = "call"
    /\ LET target == Clamp01(gp.pos)
           current == Clamp01(pen_pos)
       IN  IF OneCommand(gp.step, target, current)
           THEN /\ gp' = [gp EXCEPT !.pc = "done", !.target = target,
                                    !.current = current,
                                    !.issued = Append(@, target)]
                /\ pen_pos' = target
           ELSE /\ gp' = [gp EXCEPT !.pc = "ramp", !.target = target,
                                    !.current = current,
                                    !.direction = IF target > current THEN 1 ELSE -1,
                                    !.p = current]
                /\ UNCHANGED pen_pos
    /\ UNCHANGED <<opts, wk, stop_set, calls_at_stop, cur_xy, progress,
                   ctlVars, pmVars, legacyVars, feed_draw, wi>>

\* one iteration of while True
ps_ramp ==
    /\ gp # << >> /\ gp.op = "pen_set" /\ gp.pc = "ramp"
    /\ LET p_next == gp.p + gp.direction * gp.step[1]
       IN  IF \/ gp.direction > 0 /\ p_next >= gp.target
              \/ gp.direction < 0 /\ p_next <= gp.target
           THEN /\ gp' = [gp EXCEPT !.pc = "final"]
                /\ UNCHANGED pen_pos
           ELSE /\ gp' = [gp EXCEPT !.p = p_next, !.issued = Append(@, p_next)]
                /\ pen_pos' = p_next
    /\ UNCHANGED <<opts, wk, stop_set, calls_at_stop, cur_xy, progress,
                   ctlVars, pmVars, legacyVars, feed_draw, wi>>

\* if self._pen_pos != target: the final command (wait is False, the default)
ps_final ==
    /\ gp # << >> /\ gp.op = "pen_set" /\ gp.pc = "final"
    /\ IF pen_pos # gp.target
       THEN /\ gp' = [gp EXCEPT !.pc = "done", !.issued = Append(@, gp.target)]
            /\ pen_pos' = gp.target
       ELSE /\ gp' = [gp EXCEPT !.pc = "done"]
            /\ UNCHANGED pen_pos
    /\ UNCHANGED <<opts, wk, stop_set, calls_at_stop, cur_xy, progress,
                   ctlVars, pmVars, legacyVars, feed_draw, wi>>

-----------------------------------------------------------------------------
\* ------------------------------------------------------------------------
\* Pattern.add (penplotter/geometry.py and the legacy pattern.py)
\* ------------------------------------------------------------------------
\* an object handed to add: a Line (pts = <<p0, p1>>), a Circle (pts = <<c>>,
\* radius r, polygonised in 4 chords), a Polyline, or something else
Shape(kind, pts, r, rev) ==
    [kind |-> kind, pts |-> pts, r |-> r, rev |-> rev,
     pen_id |-> 0, pen_pressure |-> -100, feed_draw |-> << >>]

AddObjs ==
    { Shape("Line", <<GO, GA>>, 0, FALSE),
      Shape("Line", <<GO, GA>>, 0, TRUE),
      Shape("Circle", <<GO>>, 2, FALSE),
      Shape("Polyline", <<GA, GE, GB>>, 0, FALSE),
      Shape("str", << >>, 0, FALSE) }

AddCalls == SeqsUpTo(AddObjs, MaxAddObjs)

\* Line.endpoints
LineEndpoints(obj) == IF obj.rev THEN Reverse(obj.pts) ELSE obj.pts

\* Circle.to_polyline for a full sweep from 0 degrees with n = 4
CirclePts(obj) ==
    LET c == obj.pts[1]
        fwd == << <<c[1] + obj.r, c[2]>>, <<c[1], c[2] + obj.r>>,
                  <<c[1] - obj.r, c[2]>>, <<c[1], c[2] - obj.r>>,
                  <<c[1] + obj.r, c[2]>> >>
    IN  IF obj.rev THEN Reverse(fwd) ELSE fwd

\* the Polyline built from a Line or a Circle
AsPolyline(obj, pts) ==
    [obj EXCEPT !.kind = "Polyline", !.pts = pts, !.r = 0, !.rev = FALSE]

\* for obj in objs of geometry.Pattern.add: items and outcome after the loop
RECURSIVE AddLoop(_, _)
AddLoop(items, objs) ==
    IF objs = << >> THEN [items |-> items, ret |-> "self"]
    ELSE LET obj == Head(objs)
         IN  IF obj.kind = "Line"
             THEN AddLoop(Append(items, AsPolyline(obj, LineEndpoints(obj))), Tail(objs))
             ELSE IF obj.kind = "Circle"
             THEN AddLoop(Append(items, AsPolyline(obj, CirclePts(obj))), Tail(objs))
             ELSE IF obj.kind = "Polyline"
             THEN AddLoop(Append(items, obj), Tail(objs))
             ELSE [items |-> items, ret |-> "TypeError"]

\* for obj in objs of the legacy pattern.Pattern.add
RECURSIVE LegacyAddLoop(_, _)
LegacyAddLoop(items, objs) ==
    IF objs = << >> THEN [items |-> items, ret |-> "self"]
    ELSE LET obj == Head(objs)
         IN  IF obj.kind = "Line"
             THEN LegacyAddLoop(Append(items, AsPolyline(obj, LineEndpoints(obj))),
                                Tail(objs))
             ELSE IF obj.kind = "Circle"
             THEN LegacyAddLoop(Append(items, AsPolyline(obj, CirclePts(obj))), Tail(objs))
             ELSE LegacyAddLoop(Append(items, obj), Tail(objs))

AddStart(impl) ==
    [op |-> "add", impl |-> impl, items |-> << >>, ret |-> "", objs |-> << >>, ncalls |-> 0]

add_geometry(objs) ==
    /\ gp # << >> /\ gp.op = "add" /\ gp.impl = "geometry"
    /\ gp.ncalls < MaxAdds
    /\ LET r == AddLoop(gp.items, objs)
       IN  gp' = [gp EXCEPT !.items = r.items, !.ret = r.ret, !.objs = objs,
                            !.ncalls = @ + 1]
    /\ UNCHANGED <<engineVars, ctlVars, pmVars, legacyVars, feed_draw, wi>>

add_legacy(objs) ==
    /\ gp # << >> /\ gp.op = "add" /\ gp.impl = "legacy"
    /\ gp.ncalls < MaxAdds
    /\ LET r == LegacyAddLoop(gp.items, objs)
       IN  gp' = [gp EXCEPT !.items = r.items, !.ret = r.ret, !.objs = objs,
                            !.ncalls = @ + 1]
    /\ UNCHANGED <<engineVars, ctlVars, pmVars, legacyVars, feed_draw, wi>>

-----------------------------------------------------------------------------
\* ------------------------------------------------------------------------
\* PlotterController.start_job on a clone of the stored pattern
\* (penplotter/controller.py, Pattern.clone, the passes of PlotRenderer.run)
\* Pattern and Polyline objects live on a heap: pats[p] is the item list of
\* Pattern object p (a list of Polyline object ids), objs[i] the fields of
\* Polyline object i.
\* ------------------------------------------------------------------------
JobStrokeSet ==
    { Polyline(<<GO, GA, GB>>, FALSE, 0),
      Polyline(<<GB, GC>>, FALSE, 0),
      Polyline(<<GC, GE>>, TRUE, 0),
      Polyline(<<GD, GE>>, FALSE, 1) }
JobPatterns == SeqsUpTo(JobStrokeSet, MaxGeoStrokes)
\* patterns handed to set_pattern
SetPatterns == { <<Polyline(<<GA, GD>>, FALSE, 0)>> }

\* options of start_job: each pass is requested (TRUE) or None (FALSE);
\* combine = {"join_tol_mm": 0}, resample = {"max_dev_mm": 1}, optimize = "nn"
JobOptions == [combine : BOOLEAN, resample : BOOLEAN, optimize : BOOLEAN]

\* the Polyline values of a list of object ids
Values(objs, ids) == [n \in 1..Len(ids) |-> objs[ids[n]]]

\* for i, chain in enumerate(chains) of combine_endpoints, as one function
RECURSIVE CombineLoop(_, _, _, _, _)
CombineLoop(chains, used, i, merged, tol) ==
    IF i > Len(chains) THEN merged
    ELSE IF used[i] THEN CombineLoop(chains, used, i + 1, merged, tol)
    ELSE LET c == chains[i]
             e == Extend(chains, [used EXCEPT ![i] = TRUE], c.pen_id, c.pts, tol, 0)
         IN  CombineLoop(chains, e.used, i + 1, Append(merged, [c EXCEPT !.pts = e.pts]),
                         tol)

\* the new Polyline list combine_endpoints assigns to self.items
CombineItems(items, tol) ==
    LET merged == CombineLoop(Chains(items), [n \in 1..Len(Chains(items)) |-> FALSE],
                              1, << >>, tol)
    IN  [n \in 1..Len(merged) |->
            [pts |-> merged[n].pts, rev |-> FALSE, pen_id |-> merged[n].pen_id,
             pen_pressure |-> merged[n].pen_pressure,
             feed_draw |-> merged[n].feed_draw]]

\* while stack of _rdp, as one function
RECURSIVE RdpLoop(_, _, _, _)
RdpLoop(pts, eps, stack, keep) ==
    IF stack = << >> THEN Kept(pts, keep, 1)
    ELSE LET top == stack[Len(stack)]
             rest == SubSeq(stack, 1, Len(stack) - 1)
             r == RdpScan(pts, top[1], top[2], top[1] + 1, -1, 0)
         IN  IF r.max_d > eps * eps * SegScale(pts[top[1]], pts[top[2]]) /\ r.idx # 0
             THEN RdpLoop(pts, eps, rest \o << <<top[1], r.idx>>, <<r.idx, top[2]>> >>,
                          [keep EXCEPT ![r.idx] = TRUE])
             ELSE RdpLoop(pts, eps, rest, keep)

\* _resample_polyline_pts(pts, max_dev_mm=eps, max_seg_mm=None)
resample_pts(pts, eps) ==
    IF Len(pts) <= 2 THEN pts
    ELSE RdpLoop(pts, eps, << <<1, Len(pts)>> >>, KeepInit(Len(pts)))

\* while remaining of optimize_order_nn, as one function: the chosen
\* entries in order, each with the reversed flag it is given
RECURSIVE NNLoop(_, _, _)
NNLoop(cur, remaining, ordered) ==
    IF remaining = << >> THEN ordered
    ELSE LET best == BestScan(cur, remaining, 1, [i |-> 0, cost |-> 0, cfg |-> FALSE])
             it == [remaining[best.i].it EXCEPT !.rev = best.cfg]
         IN  NNLoop(endpoints(it)[2], PopAt(remaining, best.i),
                    Append(ordered, [it |-> it, idx |-> remaining[best.i].idx]))

\* variant of clone that copies the item list but not the Polyline objects
CloneShallow(g, p) ==
    [g EXCEPT !.pats = Append(@, g.pats[p])]

\* Pattern.clone: a new Pattern whose items are deep copies
clone(g, p) ==
    LET n == Len(g.pats[p])
        base == Len(g.objs)
    IN  [g EXCEPT !.objs = @ \o Values(g.objs, g.pats[p]),
                  !.pats = Append(@, [k \in 1..n |-> base + k])]

JobInit(pat) ==
    [op |-> "job", pc |-> "idle",
     objs |-> pat, pats |-> << [k \in 1..Len(pat) |-> k] >>,
     stored |-> 1, job |-> 0, options |-> [combine |-> FALSE, resample |-> FALSE,
                                           optimize |-> FALSE],
     snap |-> << >>, executed |-> << >>, njobs |-> 0, nsets |-> 0, set_in_run |-> FALSE]

\* PlotterController.set_pattern: self.pattern = pattern
job_set_pattern(pat) ==
    /\ gp # << >> /\ gp.op = "job"
    /\ gp.nsets < MaxSets
    /\ LET base == Len(gp.objs)
       IN  gp' = [gp EXCEPT !.objs = @ \o pat,
                            !.pats = Append(@, [k \in 1..Len(pat) |-> base + k]),
                            !.stored = Len(gp.pats) + 1,
                            !.nsets = @ + 1,
                            !.set_in_run = @ \/ gp.pc # "idle"]
    /\ UNCHANGED <<engineVars, ctlVars, pmVars, legacyVars, feed_draw, wi>>

\* PlotterController.start_job: pattern = self.pattern.clone(); the worker starts
job_start(o) ==
    /\ gp # << >> /\ gp.op = "job" /\ gp.pc = "idle"
    /\ gp.njobs < MaxStarts
    /\ LET g == clone(gp, gp.stored)
       IN  gp' = [g EXCEPT !.job = Len(g.pats), !.pc = "combine", !.options = o,
                           !.snap = Values(gp.objs, gp.pats[gp.stored]),
                           !.executed = << >>, !.njobs = @ + 1, !.set_in_run = FALSE]
    /\ UNCHANGED <<engineVars, ctlVars, pmVars, legacyVars, feed_draw, wi>>

\* run: if combine is not None: pattern.combine_endpoints(...)
job_combine ==
    /\ gp # << >> /\ gp.op = "job" /\ gp.pc = "combine"
    /\ IF gp.options.combine
       THEN LET new == CombineItems(Values(gp.objs, gp.pats[gp.job]), 0)
                base == Len(gp.objs)
            IN  gp' = [gp EXCEPT !.pc = "resample",
                                 !.objs = @ \o new,
                                 !.pats[gp.job] = [k \in 1..Len(new) |-> base + k]]
       ELSE gp' = [gp EXCEPT !.pc = "resample"]
    /\ UNCHANGED <<engineVars, ctlVars, pmVars, legacyVars, feed_draw, wi>>

\* run: if resample is not None: pattern.resample_polylines(...), which
\* assigns it.pts on every Polyline object of the pattern
job_resample ==
    /\ gp # << >> /\ gp.op = "job" /\ gp.pc = "resample"
    /\ IF gp.options.resample
       THEN LET ids == { gp.pats[gp.job][k] : k \in 1..Len(gp.pats[gp.job]) }
            IN  gp' = [gp EXCEPT !.pc = "optimize",
                                 !.objs = [i \in 1..Len(gp.objs) |->
                                             IF i \in ids
                                             THEN [gp.objs[i] EXCEPT
                                                     !.pts = resample_pts(@, 1)]
                                             ELSE gp.objs[i]]]
       ELSE gp' = [gp EXCEPT !.pc = "optimize"]
    /\ UNCHANGED <<engineVars, ctlVars, pmVars, legacyVars, feed_draw, wi>>

\* run: if optimize == "nn": pattern.optimize_order_nn(start_xy), which
\* assigns it._rev on the Polyline objects and self.items on the pattern
job_optimize ==
    /\ gp # << >> /\ gp.op = "job" /\ gp.pc = "optimize"
    /\ IF gp.options.optimize
       THEN LET ids == gp.pats[gp.job]
                ord == NNLoop(GO, [n \in 1..Len(ids) |-> [it |-> gp.objs[ids[n]],
                                                          idx |-> ids[n]]], << >>)
                flag == [i \in 1..Len(gp.objs) |->
                           IF \E n \in 1..Len(ord) : ord[n].idx = i
                           THEN (LET n == CHOOSE n \in 1..Len(ord) : ord[n].idx = i
                                 IN  ord[n].it.rev)
                           ELSE gp.objs[i].rev]
            IN  gp' = [gp EXCEPT !.pc = "exec",
                                 !.objs = [i \in 1..Len(gp.objs) |->
                                             [gp.objs[i] EXCEPT !.rev = flag[i]]],
                                 !.pats[gp.job] = [n \in 1..Len(ord) |-> ord[n].idx]]
       ELSE gp' = [gp EXCEPT !.pc = "exec"]
    /\ UNCHANGED <<engineVars, ctlVars, pmVars, legacyVars, feed_draw, wi>>

\* run: the strokes of the worker's pattern are executed; the worker ends
job_execute ==
    /\ gp # << >> /\ gp.op = "job" /\ gp.pc = "exec"
    /\ gp' = [gp EXCEPT !.pc = "idle",
                        !.executed = [n \in 1..Len(gp.pats[gp.job]) |->
                                        DrawPts(gp.objs[gp.pats[gp.job][n]])]]
    /\ UNCHANGED <<engineVars, ctlVars, pmVars, legacyVars, feed_draw, wi>>

-----------------------------------------------------------------------------
\* ------------------------------------------------------------------------
\* Servo mapping: GRBL._servo_map / _issue_servo (device/grbl.py),
\* ServoCalibration.to_pwm (config.py) and its callers
\* ------------------------------------------------------------------------
s_down == 90                       \* Config.s_down, ServoCalibration.down
s_up == 40                         \* Config.s_up, ServoCalibration.up

\* int(round(s_down + asin(pos * sin(theta_max)) / theta_max * (s_up - s_down)))
\* for theta_max = 80 degrees, at pos = 0.0, 0.1, ..., 1.0
ServoMapTable == << 90, 86, 83, 79, 76, 72, 67, 63, 58, 51, 40 >>

\* GRBL._servo_map on the 0.1 grid of pen positions (thousandths)
servo_map(pos) == ServoMapTable[(Clamp01(pos) \div 100) + 1]

\* round(num / den), halves to the even neighbour (den > 0)
RoundDiv(num, den) ==
    LET q == num \div den
        r2 == 2 * (num % den)
    IN  IF r2 < den THEN q
        ELSE IF r2 > den THEN q + 1
        ELSE IF q % 2 = 0 THEN q ELSE q + 1

\* ServoCalibration.to_pwm: int(round(down + clamp(value) * (up - down)))
to_pwm(value) ==
    RoundDiv(s_down * HeightOne + Clamp01(value) * (s_up - s_down), HeightOne)

ServoStart == [op |-> "servo", sent |-> << >>]

\* GRBL.pen_set -> _issue_servo(pos): M3 S{_servo_map(pos)}
sv_issue_servo(pos) ==
    /\ gp # << >> /\ gp.op = "servo" /\ Len(gp.sent) < MaxServoCmds
    /\ gp' = [gp EXCEPT !.sent = Append(@, [pos |-> pos, pwm |-> servo_map(pos),
                                            via |-> "_issue_servo"])]
    /\ UNCHANGED <<engineVars, ctlVars, pmVars, legacyVars, feed_draw, wi>>

\* app._apply_pen_height(value): M3 S{settings.servo.to_pwm(value)}
sv_apply_pen_height(value) ==
    /\ gp # << >> /\ gp.op = "servo" /\ Len(gp.sent) < MaxServoCmds
    /\ gp' = [gp EXCEPT !.sent = Append(@, [pos |-> value, pwm |-> to_pwm(value),
                                            via |-> "_apply_pen_height"])]
    /\ UNCHANGED <<engineVars, ctlVars, pmVars, legacyVars, feed_draw, wi>>

\* GRBLController.pen_up: M3 S{to_pwm(1.0)}
sv_pen_up ==
    /\ gp # << >> /\ gp.op = "servo" /\ Len(gp.sent) < MaxServoCmds
    /\ gp' = [gp EXCEPT !.sent = Append(@, [pos |-> HeightOne, pwm |-> to_pwm(HeightOne),
                                            via |-> "pen_up"])]
    /\ UNCHANGED <<engineVars, ctlVars, pmVars, legacyVars, feed_draw, wi>>

\* GRBLController.pen_down: M3 S{to_pwm(0.0)}
sv_pen_down ==
    /\ gp # << >> /\ gp.op = "servo" /\ Len(gp.sent) < MaxServoCmds
    /\ gp' = [gp EXCEPT !.sent = Append(@, [pos |-> 0, pwm |-> to_pwm(0),
                                            via |-> "pen_down"])]
    /\ UNCHANGED <<engineVars, ctlVars, pmVars, legacyVars, feed_draw, wi>>

-----------------------------------------------------------------------------
\* ------------------------------------------------------------------------
\* Response framing: GRBL._readlines_until_timeout (device/grbl.py, identical
\* in penplot_helper.py) and GRBLController._read_until_ok (grbl_controller.py)
\* Lines are sequences of characters; time is counted in units of which the
\* read timeout is ReadTimeout.
\* ------------------------------------------------------------------------
CmdImpls == { "GRBL", "GRBLController" }

\* what one readline() can deliver: nothing (the serial timeout ran out), a
\* blank line, terminators in several spellings, other lines
DeviceLines ==
    { << >>, <<" ">>, <<"o", "k">>, <<" ", "O", "K", " ">>, <<"O", "k", "!">>,
      <<"e", "r", "r">>, <<"k", "o">> }

\* str.strip() for blanks
RECURSIVE LStrip(_)
LStrip(l) == IF l # << >> /\ Head(l) = " " THEN LStrip(Tail(l)) ELSE l

strip(l) == Reverse(LStrip(Reverse(LStrip(l))))

LowerChar(c) == IF c = "O" THEN "o" ELSE IF c = "K" THEN "k" ELSE c

\* line.lower().startswith("ok")
StartsWithOk(l) == Len(l) >= 2 /\ LowerChar(l[1]) = "o" /\ LowerChar(l[2]) = "k"

\* the time one readline() takes: the whole serial timeout when nothing
\* arrives, otherwise little or none
ReadTimes(raw) == IF raw = << >> THEN { ReadTimeout } ELSE { 0, 1 }

CmdStart(impl) ==
    [op |-> "cmd", impl |-> impl, pc |-> "loop", lines |-> << >>, elapsed |-> 0,
     reads |-> 0]

\* GRBL._readlines_until_timeout: one iteration of while True; the timeout
\* is tested only when the line is empty
grbl_read(raw, dt) ==
    /\ gp # << >> /\ gp.op = "cmd" /\ gp.impl = "GRBL" /\ gp.pc = "loop"
    /\ gp.reads < MaxReads
    /\ dt \in ReadTimes(raw)
    /\ LET line == strip(raw)
           now == gp.elapsed + dt
           g == [gp EXCEPT !.elapsed = now, !.reads = @ + 1]
       IN  IF line # << >>
           THEN gp' = [g EXCEPT !.lines = Append(@, line),
                                !.pc = IF StartsWithOk(line) THEN "returned" ELSE "loop"]
           ELSE gp' = [g EXCEPT !.pc = IF now > ReadTimeout THEN "returned" ELSE "loop"]
    /\ UNCHANGED <<engineVars, ctlVars, pmVars, legacyVars, feed_draw, wi>>

\* GRBLController._read_until_ok: one iteration of while True; the timeout
\* is tested after every line
ctl_read(raw, dt) ==
    /\ gp # << >> /\ gp.op = "cmd" /\ gp.impl = "GRBLController" /\ gp.pc = "loop"
    /\ gp.reads < MaxReads
    /\ dt \in ReadTimes(raw)
    /\ LET line == strip(raw)
           now == gp.elapsed + dt
           g == [gp EXCEPT !.elapsed = now, !.reads = @ + 1]
           g2 == IF line # << >> THEN [g EXCEPT !.lines = Append(@, line)] ELSE g
       IN  gp' = [g2 EXCEPT !.pc = IF \/ line # << >> /\ StartsWithOk(line)
                                      \/ now > ReadTimeout
                                   THEN "returned" ELSE "loop"]
    /\ UNCHANGED <<engineVars, ctlVars, pmVars, legacyVars, feed_draw, wi>>

-----------------------------------------------------------------------------
\* ------------------------------------------------------------------------
\* GRBLController connection management (penplotter/grbl_controller.py)
\* self._lock is a threading.Lock (not reentrant): lock is its owner, 0 free.
\* Each thread has a position pc, the position ret its innermost call
\* returns to, and the top-level call it is in.
\* ------------------------------------------------------------------------
ConnThreads == 1..2
ConnPorts == { "A", "B" }

ConnIdle == [pc |-> "idle", ret |-> "idle", top |-> "", port |-> "", cmd |-> "",
             done |-> << >>]

ConnStart ==
    [op |-> "conn", lock |-> 0, serial |-> "", connected_port |-> "",
     th |-> [t \in ConnThreads |-> ConnIdle], sent |-> << >>, ncalls |-> 0]

\* a thread calls connect(port), disconnect() or send_command("M3 S40")
conn_call(t, top, port) ==
    /\ gp # << >> /\ gp.op = "conn" /\ gp.th[t].pc = "idle"
    /\ gp.ncalls < MaxConnCalls
    /\ top \in { "connect", "disconnect", "send_command" }
    /\ gp' = [gp EXCEPT !.ncalls = @ + 1,
                        !.th[t] = [@ EXCEPT
                            !.top = top, !.ret = "idle",
                            !.port = IF top = "connect" THEN port ELSE "",
                            !.cmd = IF top = "send_command" THEN "M3 S40" ELSE "",
                            !.pc = IF top = "connect" THEN "c_lock"
                                   ELSE IF top = "disconnect" THEN "d_lock"
                                   ELSE "s_lock"]]
    /\ UNCHANGED <<engineVars, ctlVars, pmVars, legacyVars, feed_draw, wi>>

\* connect: with self._lock, then the already-open test
c_lock(t) ==
    /\ gp # << >> /\ gp.op = "conn" /\ gp.th[t].pc = "c_lock"
    /\ gp.lock = 0
    /\ IF gp.serial # ""
       THEN IF gp.connected_port = gp.th[t].port
            THEN gp' = [gp EXCEPT !.th[t] = [@ EXCEPT !.pc = "idle",
                                                      !.done = Append(@, "connect")]]
            ELSE gp' = [gp EXCEPT !.lock = t,
                                  !.th[t] = [@ EXCEPT !.pc = "d_lock", !.ret = "c_open"]]
       ELSE gp' = [gp EXCEPT !.lock = t, !.th[t] = [@ EXCEPT !.pc = "c_open"]]
    /\ UNCHANGED <<engineVars, ctlVars, pmVars, legacyVars, feed_draw, wi>>

\* connect: serial.Serial(...), which may raise; then the wake-up write and
\* flush_input, and the call of send_command("G90")
c_open(t) ==
    /\ gp # << >> /\ gp.op = "conn" /\ gp.th[t].pc = "c_open"
    /\ \/ gp' = [gp EXCEPT !.serial = gp.th[t].port,
                           !.connected_port = gp.th[t].port,
                           !.sent = Append(@, "\\r\\n"),
                           !.th[t] = [@ EXCEPT !.pc = "s_lock", !.cmd = "G90",
                                               !.ret = "c_g21"]]
       \/ gp' = [gp EXCEPT !.lock = 0,
                           !.th[t] = [@ EXCEPT !.pc = "idle",
                                               !.done = Append(@, "GRBLConnectionError")]]
    /\ UNCHANGED <<engineVars, ctlVars, pmVars, legacyVars, feed_draw, wi>>

\* the innermost call of thread t returns: a top-level call is over; in
\* connect, send_command("G90") is followed by send_command("G21") and that
\* by the end of connect's with block; disconnect by the opening of the port
AfterCall(g, t) ==
    LET ret == g.th[t].ret
    IN  IF ret = "idle"
        THEN [g EXCEPT !.th[t] = [@ EXCEPT !.pc = "idle",
                                           !.done = Append(@, g.th[t].top)]]
        ELSE IF ret = "c_g21"
        THEN [g EXCEPT !.th[t] = [@ EXCEPT !.pc = "s_lock", !.cmd = "G21",
                                           !.ret = "c_exit"]]
        ELSE IF ret = "c_exit"
        THEN [g EXCEPT !.lock = 0,
                       !.th[t] = [@ EXCEPT !.pc = "idle", !.ret = "idle",
                                           !.done = Append(@, "connect")]]
        ELSE [g EXCEPT !.th[t] = [@ EXCEPT !.pc = ret, !.ret = "idle"]]

\* send_command: with self._lock
s_lock(t) ==
    /\ gp # << >> /\ gp.op = "conn" /\ gp.th[t].pc = "s_lock"
    /\ gp.lock = 0
    /\ gp' = [gp EXCEPT !.lock = t, !.th[t] = [@ EXCEPT !.pc = "s_io"]]
    /\ UNCHANGED <<engineVars, ctlVars, pmVars, legacyVars, feed_draw, wi>>

\* send_command: _write (which requires a connection) and _read_until_ok,
\* then the end of the with block
s_io(t) ==
    /\ gp # << >> /\ gp.op = "conn" /\ gp.th[t].pc = "s_io"
    /\ IF gp.serial = ""
       THEN gp' = [gp EXCEPT !.lock = 0,
                             !.th[t] = [@ EXCEPT !.pc = "idle", !.ret = "idle",
                                                 !.done = Append(@, "GRBLConnectionError")]]
       ELSE gp' = AfterCall([gp EXCEPT !.lock = 0, !.sent = Append(@, gp.th[t].cmd)], t)
    /\ UNCHANGED <<engineVars, ctlVars, pmVars, legacyVars, feed_draw, wi>>

\* disconnect: with self._lock
d_lock(t) ==
    /\ gp # << >> /\ gp.op = "conn" /\ gp.th[t].pc = "d_lock"
    /\ gp.lock = 0
    /\ gp' = [gp EXCEPT !.lock = t, !.th[t] = [@ EXCEPT !.pc = "d_close"]]
    /\ UNCHANGED <<engineVars, ctlVars, pmVars, legacyVars, feed_draw, wi>>

\* disconnect: close, clear, and the end of the with block
d_close(t) ==
    /\ gp # << >> /\ gp.op = "conn" /\ gp.th[t].pc = "d_close"
    /\ gp' = AfterCall([gp EXCEPT !.lock = 0, !.serial = "", !.connected_port = ""], t)
    /\ UNCHANGED <<engineVars, ctlVars, pmVars, legacyVars, feed_draw, wi>>

\* ------------------------------------------------------------------------
\* MotionWorker (penplot_widgets.py): the UI thread and the worker thread
\* script_busy, latest_xy (0 is None) and cmd_q are the worker's fields;
\* wpc/handled/tgt are the position and locals of _run, upc/arg those of the
\* UI thread's call. History: active counts the run_script calls whose
\* barrier is not yet processed, last is the target stored last, sent the
\* moves sent to the device, dropped the discarded requests.
\* ------------------------------------------------------------------------
LiveStart ==
    [op |-> "live", script_busy |-> FALSE, latest_xy |-> 0, cmd_q |-> << >>,
     wpc |-> "get", handled |-> FALSE, tgt |-> 0,
     upc |-> "idle", arg |-> 0, nreq |-> 0, nscripts |-> 0,
     active |-> 0, last |-> 0, sent |-> << >>, dropped |-> {}]

\* _run: cmd_q.get_nowait() and the handling of the command
w_get ==
    /\ gp # << >> /\ gp.op = "live" /\ gp.wpc = "get"
    /\ IF gp.cmd_q # << >>
       THEN LET cmd == Head(gp.cmd_q)
            IN  gp' = [gp EXCEPT
                    !.cmd_q = Tail(@), !.handled = TRUE,
                    !.script_busy = IF cmd.kind = "barrier" THEN FALSE ELSE @,
                    !.active = IF cmd.kind = "barrier" THEN @ - 1 ELSE @,
                    !.sent = IF cmd.kind = "goto"
                             THEN Append(@, [kind |-> "script", tgt |-> 0,
                                             active |-> gp.active, last |-> gp.last])
                             ELSE @]
       ELSE gp' = [gp EXCEPT !.handled = FALSE, !.wpc = "check"]
    /\ UNCHANGED <<engineVars, ctlVars, pmVars, legacyVars, feed_draw, wi>>

\* _run: if not handled and not self.script_busy
w_check ==
    /\ gp # << >> /\ gp.op = "live" /\ gp.wpc = "check"
    /\ gp' = [gp EXCEPT !.wpc = IF gp.script_busy THEN "wait" ELSE "take"]
    /\ UNCHANGED <<engineVars, ctlVars, pmVars, legacyVars, feed_draw, wi>>

\* _run: with self.lock: tgt = self.latest_xy; self.latest_xy = None
w_take ==
    /\ gp # << >> /\ gp.op = "live" /\ gp.wpc = "take"
    /\ gp' = [gp EXCEPT !.tgt = gp.latest_xy, !.latest_xy = 0,
                        !.wpc = IF gp.latest_xy # 0 THEN "send" ELSE "wait"]
    /\ UNCHANGED <<engineVars, ctlVars, pmVars, legacyVars, feed_draw, wi>>

\* _run: the rate-limit sleep and self._goto(*tgt)
w_send ==
    /\ gp # << >> /\ gp.op = "live" /\ gp.wpc = "send"
    /\ gp' = [gp EXCEPT !.wpc = "wait",
                        !.sent = Append(@, [kind |-> "live", tgt |-> gp.tgt,
                                            active |-> gp.active, last |-> gp.last])]
    /\ UNCHANGED <<engineVars, ctlVars, pmVars, legacyVars, feed_draw, wi>>

\* _run: the closing test and self.ev.wait(timeout=0.05), which returns
w_wait ==
    /\ gp # << >> /\ gp.op = "live" /\ gp.wpc = "wait"
    /\ gp' = [gp EXCEPT !.wpc = "get"]
    /\ UNCHANGED <<engineVars, ctlVars, pmVars, legacyVars, feed_draw, wi>>

\* queue_live_xy: if self.script_busy: return
ql_test ==
    /\ gp # << >> /\ gp.op = "live" /\ gp.upc = "idle"
    /\ gp.nreq < MaxLiveReqs
    /\ gp' = [gp EXCEPT !.nreq = @ + 1,
                        !.arg = gp.nreq + 1,
                        !.upc = IF gp.script_busy THEN "idle" ELSE "ql_store",
                        !.dropped = IF gp.script_busy THEN @ \cup { gp.nreq + 1 } ELSE @]
    /\ UNCHANGED <<engineVars, ctlVars, pmVars, legacyVars, feed_draw, wi>>

\* queue_live_xy: with self.lock: self.latest_xy = (x, y)
ql_store ==
    /\ gp # << >> /\ gp.op = "live" /\ gp.upc = "ql_store"
    /\ gp' = [gp EXCEPT !.latest_xy = gp.arg, !.last = gp.arg, !.upc = "idle"]
    /\ UNCHANGED <<engineVars, ctlVars, pmVars, legacyVars, feed_draw, wi>>

\* run_script: self.script_busy = True
rs_busy ==
    /\ gp # << >> /\ gp.op = "live" /\ gp.upc = "idle"
    /\ gp.nscripts < MaxScripts
    /\ gp' = [gp EXCEPT !.nscripts = @ + 1, !.script_busy = TRUE,
                        !.active = @ + 1, !.upc = "rs_items"]
    /\ UNCHANGED <<engineVars, ctlVars, pmVars, legacyVars, feed_draw, wi>>

\* run_script: for it in items: self.cmd_q.put(it), with one goto item
rs_items ==
    /\ gp # << >> /\ gp.op = "live" /\ gp.upc = "rs_items"
    /\ gp' = [gp EXCEPT !.cmd_q = Append(@, [kind |-> "goto"]), !.upc = "rs_barrier"]
    /\ UNCHANGED <<engineVars, ctlVars, pmVars, legacyVars, feed_draw, wi>>

\* run_script: self.cmd_q.put(('barrier', ev, True))
rs_barrier ==
    /\ gp # << >> /\ gp.op = "live" /\ gp.upc = "rs_barrier"
    /\ gp' = [gp EXCEPT !.cmd_q = Append(@, [kind |-> "barrier"]), !.upc = "idle"]
    /\ UNCHANGED <<engineVars, ctlVars, pmVars, legacyVars, feed_draw, wi>>

\* ------------------------------------------------------------------------
\* Legacy Renderer.run (pattern.py) with its control requests
\* A run is the sequence of its checkpoints ("chk": _check_cancelled() and
\* then _wait_if_paused()) and device commands, in the order of the code.
\* History: hold says that '!' was written and no '~' since, held_motion
\* that a motion command was issued in that condition, ncmd counts the
\* device commands of the run and last is the latest of them; blk says that
\* request_cancel found the worker blocked in its pause wait, when ncmd was
\* cmd_at_cancel.
\* ------------------------------------------------------------------------
LegacyModes == { "start", "centroid", "per_segment", "threshold" }

Chk == "chk"

\* _partial_lift_to_travel: checkpoint, pen_set
PartialLift(name) == << Chk, name >>

\* _travel_to: checkpoint, _partial_lift_to_travel(self._cur_xy), move_xy
TravelTo == << Chk >> \o PartialLift("lift") \o << "travel" >>

\* _pen_set: checkpoint, pen_set
PenSet == << Chk, "pen" >>

\* i % self.flush_every == 0: self.g.wait_idle()
Flush(i, flush_every) == IF i % flush_every = 0 THEN << "wait_idle" >> ELSE << >>

\* the body of the draw loop of _run_polyline for segment i
DrawStep(z_mode, i, needs, flush_every) ==
    (IF z_mode = "per_segment" THEN << Chk >> \o PenSet
     ELSE IF z_mode = "threshold" /\ needs[i] THEN << Chk >> \o PenSet
     ELSE << Chk >>)
    \o << "draw" >> \o Flush(i, flush_every)

RECURSIVE DrawLoop(_, _, _, _, _)
DrawLoop(z_mode, i, nseg, needs, flush_every) ==
    IF i > nseg THEN << >>
    ELSE DrawStep(z_mode, i, needs, flush_every)
         \o DrawLoop(z_mode, i + 1, nseg, needs, flush_every)

\* _run_polyline, after the checkpoint of run's loop
RunPolyline(z_mode, nseg, needs, flush_every) ==
    << Chk >> \o << Chk >> \o TravelTo \o PenSet
    \o DrawLoop(z_mode, 1, nseg, needs, flush_every)
    \o << "wait_idle" >> \o PartialLift("post_lift")

\* if return_home: checkpoint, _pen_set(1.0), _travel_to(0, 0)
ReturnHome == << Chk >> \o PenSet \o TravelTo

RunProgram(z_mode, nseg, needs, flush_every, return_home) ==
    RunPolyline(z_mode, nseg, needs, flush_every)
    \o (IF return_home THEN ReturnHome ELSE << >>)

MotionCommands == { "travel", "draw" }
PenCommands == { "lift", "pen", "post_lift" }

\* a Renderer after construction: no run yet, pause event set
LRunStart(z_mode, flush_every) ==
    [op |-> "lrun", z_mode |-> z_mode, flush_every |-> flush_every,
     cancel_requested |-> FALSE, pause_set |-> TRUE,
     st |-> "idle", prog |-> << >>, ip |-> 1, phase |-> "check",
     nruns |-> 0, nreq |-> 0, ncmd |-> 0, last |-> "",
     hold |-> FALSE, held_motion |-> FALSE,
     blk |-> FALSE, cmd_at_cancel |-> 0]

\* the worker moves past instruction ip; the run is over after the last one
Advance(g) ==
    IF g.ip = Len(g.prog)
    THEN [g EXCEPT !.st = "done", !.phase = "check"]
    ELSE [g EXCEPT !.ip = @ + 1, !.phase = "check"]

\* run: reset_control(), then the strokes to execute
lr_run(nseg, needs, return_home) ==
    /\ gp # << >> /\ gp.op = "lrun" /\ gp.st # "running"
    /\ gp.nruns < MaxRuns
    /\ gp' = [gp EXCEPT !.nruns = @ + 1,
                        !.cancel_requested = FALSE, !.pause_set = TRUE,
                        !.st = "running", !.ip = 1, !.phase = "check",
                        !.prog = RunProgram(gp.z_mode, nseg, needs, gp.flush_every,
                                            return_home),
                        !.blk = FALSE, !.ncmd = 0, !.cmd_at_cancel = 0,
                        !.last = ""]
    /\ UNCHANGED <<engineVars, ctlVars, pmVars, legacyVars, feed_draw, wi>>

\* _check_cancelled
lr_check ==
    /\ gp # << >> /\ gp.op = "lrun" /\ gp.st = "running"
    /\ gp.prog[gp.ip] = Chk /\ gp.phase = "check"
    /\ gp' = IF gp.cancel_requested
             THEN [gp EXCEPT !.st = "cancelled"]
             ELSE [gp EXCEPT !.phase = "wait"]
    /\ UNCHANGED <<engineVars, ctlVars, pmVars, legacyVars, feed_draw, wi>>

\* _wait_if_paused: self._pause_event.wait() returns at once if the event is
\* set and blocks otherwise
lr_wait ==
    /\ gp # << >> /\ gp.op = "lrun" /\ gp.st = "running"
    /\ gp.prog[gp.ip] = Chk /\ gp.phase = "wait"
    /\ gp' = IF gp.pause_set THEN Advance(gp) ELSE [gp EXCEPT !.phase = "blocked"]
    /\ UNCHANGED <<engineVars, ctlVars, pmVars, legacyVars, feed_draw, wi>>

\* the blocked wait() returns once set() has notified it
lr_wake ==
    /\ gp # << >> /\ gp.op = "lrun" /\ gp.st = "running"
    /\ gp.phase = "woken"
    /\ gp' = Advance(gp)
    /\ UNCHANGED <<engineVars, ctlVars, pmVars, legacyVars, feed_draw, wi>>

\* a device command of the run
lr_cmd ==
    /\ gp # << >> /\ gp.op = "lrun" /\ gp.st = "running"
    /\ gp.prog[gp.ip] # Chk
    /\ gp' = Advance([gp EXCEPT
                        !.last = gp.prog[gp.ip], !.ncmd = @ + 1,
                        !.held_motion = @ \/ (gp.hold /\ gp.prog[gp.ip] \in MotionCommands)])
    /\ UNCHANGED <<engineVars, ctlVars, pmVars, legacyVars, feed_draw, wi>>

\* self._pause_event.set(): a waiter blocked in wait() is notified
EventSet(g) ==
    [g EXCEPT !.pause_set = TRUE,
              !.phase = IF @ = "blocked" THEN "woken" ELSE @]

\* request_cancel: the flag, set(), and the feed-hold byte
lr_request_cancel ==
    /\ gp # << >> /\ gp.op = "lrun"
    /\ gp.nreq < MaxRunReqs
    /\ gp' = [EventSet(gp) EXCEPT
                 !.nreq = @ + 1, !.cancel_requested = TRUE,
                 !.hold = TRUE,
                 !.blk = @ \/ (gp.st = "running" /\ gp.phase = "blocked"),
                 !.cmd_at_cancel = IF gp.st = "running" /\ gp.phase = "blocked"
                                   THEN gp.ncmd ELSE @]
    /\ UNCHANGED <<engineVars, ctlVars, pmVars, legacyVars, feed_draw, wi>>

\* request_pause: clear(), and the feed-hold byte
lr_request_pause ==
    /\ gp # << >> /\ gp.op = "lrun"
    /\ gp.nreq < MaxRunReqs
    /\ gp' = [gp EXCEPT !.nreq = @ + 1, !.pause_set = FALSE, !.hold = TRUE]
    /\ UNCHANGED <<engineVars, ctlVars, pmVars, legacyVars, feed_draw, wi>>

\* request_resume: if the event is not set, set() and the cycle-resume byte
lr_request_resume ==
    /\ gp # << >> /\ gp.op = "lrun"
    /\ gp.nreq < MaxRunReqs
    /\ gp' = IF ~gp.pause_set
             THEN [EventSet(gp) EXCEPT !.nreq = @ + 1, !.hold = FALSE]
             ELSE [gp EXCEPT !.nreq = @ + 1]
    /\ UNCHANGED <<engineVars, ctlVars, pmVars, legacyVars, feed_draw, wi>>

-----------------------------------------------------------------------------
\* ------------------------------------------------------------------------
\* Specifications
\* ------------------------------------------------------------------------
\* PlotManager after construction, on a controller whose port is open
InitPMIdle ==
    /\ pm_state = "idle"
    /\ pm_stop = FALSE
    /\ pm_pause = FALSE
    /\ pm_job = << >>
    /\ pw = NoPW
    /\ start_pc = "idle"
    /\ nstarts = 0
    /\ nctl = 0
    /\ last_status = "None"
    /\ pm_progress = <<0, 1>>
    /\ gc_connected = TRUE
    /\ pm_sent = << >>
    /\ sent_at_pause = 0

InitCtlIdle ==
    /\ pattern = << >>
    /\ cpc = [j \in Jobs |-> "off"]
    /\ job_thread = 0
    /\ stop_event = 0
    /\ job_state = "idle"
    /\ last_error = "None"
    /\ nstops = 0
    /\ rt_log = << >>
    /\ manual = 0
    /\ manual_in_run = 0

\* legacy Renderer after construction: no cancel requested, pause event set
InitLegacyIdle ==
    /\ cancel_requested = FALSE
    /\ lg_paused = FALSE
    /\ nlegacy = 0

\* Config.feed_draw as constructed; nobody inside wait_idle; no pattern pass
InitFnIdle ==
    /\ feed_draw = CfgFeedDraw
    /\ wi = NoWait
    /\ gp = << >>

InitRun ==
    /\ opts \in [z_mode : ZModeInputs, flush_every : 1..MaxFlush]
    /\ \E pat \in PatternSet, home \in BOOLEAN, filter \in PenFilters :
          wk = [j \in Jobs |-> IF j = 1 THEN NewWorker(pat, home, filter)
                               ELSE NoWorker]
    /\ stop_set = [j \in Jobs |-> FALSE]
    /\ calls_at_stop = [j \in Jobs |-> 0]
    /\ cur_xy = << >>
    /\ pen_pos = HeightOne
    /\ progress = <<0, 0>>
    /\ InitCtlIdle
    /\ InitPMIdle
    /\ InitLegacyIdle
    /\ feed_draw \in { CfgFeedDraw, 1500 }   \* as configured, or left by an earlier run
    /\ wi = NoWait
    /\ gp = << >>

NextRun == Engine(1) \/ set_stop_event

SpecRun == InitRun /\ [][NextRun]_vars

\* Controller: the state after construction (controller.py __post_init__), with
\* the renderer options it was built with
Init ==
    /\ opts = [z_mode |-> "per_segment", flush_every |-> 1]
    /\ wk = [j \in Jobs |-> NoWorker]
    /\ stop_set = [j \in Jobs |-> FALSE]
    /\ calls_at_stop = [j \in Jobs |-> 0]
    /\ cur_xy = << >>
    /\ pen_pos = HeightOne
    /\ progress = <<0, 0>>
    /\ pattern = << >>
    /\ cpc = [j \in Jobs |-> "ready"]
    /\ job_thread = 0
    /\ stop_event = 0
    /\ job_state = "idle"
    /\ last_error = "None"
    /\ nstops = 0
    /\ rt_log = << >>
    /\ manual = 0
    /\ manual_in_run = 0
    /\ InitPMIdle
    /\ InitLegacyIdle
    /\ InitFnIdle

Next ==
    \/ \E pat \in CtlPatterns : set_pattern(pat)
    \/ \E c \in Jobs : start_job_locked(c)
    \/ \E c \in Jobs : start_job_assign(c)
    \/ \E c \in Jobs : start_job_start(c)
    \/ \E w \in Jobs : Engine(w)
    \/ \E w \in Jobs : worker_returned(w)
    \/ \E w \in Jobs : worker_except(w)
    \/ \E w \in Jobs : worker_finally(w)
    \/ stop_job
    \/ \E op \in ManualOps : manual_cmd(op)

Spec == Init /\ [][Next]_vars

InitEngineIdle ==
    /\ opts = [z_mode |-> "per_segment", flush_every |-> 1]
    /\ wk = [j \in Jobs |-> NoWorker]
    /\ stop_set = [j \in Jobs |-> FALSE]
    /\ calls_at_stop = [j \in Jobs |-> 0]
    /\ cur_xy = << >>
    /\ pen_pos = HeightOne
    /\ progress = <<0, 0>>

InitPM == InitEngineIdle /\ InitCtlIdle /\ InitPMIdle /\ InitLegacyIdle /\ InitFnIdle

NextPM ==
    \/ \E job \in JobSet : pm_start_launch(job)
    \/ pm_start_state
    \/ pm_start_status
    \/ pm_stop_call
    \/ pm_pause_call
    \/ pm_resume_call
    \/ gc_disconnect
    \/ pw_begin
    \/ pw_tp_check
    \/ pw_tp_feed
    \/ pw_pl_check
    \/ pw_wait_if_paused
    \/ pw_pl_up
    \/ pw_pl_rapid
    \/ pw_pl_down
    \/ pw_seg_check
    \/ pw_seg_move
    \/ pw_pl_lift
    \/ pw_fin_pen
    \/ pw_fin_state
    \/ pw_fin_status
    \/ pw_fin_clear
    \/ request_cancel
    \/ request_pause
    \/ request_resume

SpecPM == InitPM /\ [][NextPM]_vars

\* one call of GRBL.wait_idle
InitWait ==
    /\ InitEngineIdle /\ InitCtlIdle /\ InitPMIdle /\ InitLegacyIdle
    /\ feed_draw = CfgFeedDraw
    /\ wi = [NoWait EXCEPT !.pc = "call"]
    /\ gp = << >>

NextWait ==
    \/ wi_enter
    \/ wi_loop
    \/ \E outcome \in StatusOutcomes : wi_poll(outcome)
    \/ \E d \in 1..2 : wi_sleep(d)

SpecWait == InitWait /\ [][NextWait]_vars

\* one call of Pattern.optimize_order_nn
InitNN ==
    /\ InitEngineIdle /\ InitCtlIdle /\ InitPMIdle /\ InitLegacyIdle
    /\ feed_draw = CfgFeedDraw
    /\ wi = NoWait
    /\ \E pat \in GeoPatterns, start_xy \in StartPoints : gp = NNStart(pat, start_xy)

NextNN == nn_step \/ nn_finish

SpecNN == InitNN /\ [][NextNN]_vars

\* one call of Pattern.combine_endpoints
InitCombine ==
    /\ InitEngineIdle /\ InitCtlIdle /\ InitPMIdle /\ InitLegacyIdle
    /\ feed_draw = CfgFeedDraw
    /\ wi = NoWait
    /\ \E impl \in CombineImpls, pat \in GeoPatterns \cup ParamPatterns,
          tol \in JoinTols :
            gp = CombineStart(impl, pat, tol)

NextCombine == cb_chain \/ cb_finish \/ lg_chain \/ lg_finish \/ lg_again

SpecCombine == InitCombine /\ [][NextCombine]_vars

\* one call of _rdp(pts, eps), as made by _resample_polyline_pts when max_dev_mm > 0
InitRdp ==
    /\ InitEngineIdle /\ InitCtlIdle /\ InitPMIdle /\ InitLegacyIdle
    /\ feed_draw = CfgFeedDraw
    /\ wi = NoWait
    /\ \E pts \in RdpInputs, eps \in EpsSet : gp = RdpStart(pts, eps)

NextRdp == rdp_call \/ rdp_iter \/ rdp_return

SpecRdp == InitRdp /\ [][NextRdp]_vars

\* one call of GRBL.pen_set from any tracked position
InitPen ==
    /\ InitCtlIdle /\ InitPMIdle /\ InitLegacyIdle
    /\ opts = [z_mode |-> "per_segment", flush_every |-> 1]
    /\ wk = [j \in Jobs |-> NoWorker]
    /\ stop_set = [j \in Jobs |-> FALSE]
    /\ calls_at_stop = [j \in Jobs |-> 0]
    /\ cur_xy = << >>
    /\ progress = <<0, 0>>
    /\ pen_pos \in PenGrid
    /\ feed_draw = CfgFeedDraw
    /\ wi = NoWait
    /\ \E pos \in PenArgs, step \in PenSteps : gp = PenSetStart(pos, step)

NextPen == ps_call \/ ps_ramp \/ ps_final

SpecPen == InitPen /\ [][NextPen]_vars

\* add calls on a fresh Pattern
InitAdd ==
    /\ InitEngineIdle /\ InitCtlIdle /\ InitPMIdle /\ InitLegacyIdle
    /\ feed_draw = CfgFeedDraw
    /\ wi = NoWait
    /\ \E impl \in CombineImpls : gp = AddStart(impl)

NextAdd == \E objs \in AddCalls : add_geometry(objs) \/ add_legacy(objs)

SpecAdd == InitAdd /\ [][NextAdd]_vars

\* jobs of a controller that holds a pattern
InitJob ==
    /\ InitEngineIdle /\ InitCtlIdle /\ InitPMIdle /\ InitLegacyIdle
    /\ feed_draw = CfgFeedDraw
    /\ wi = NoWait
    /\ \E pat \in JobPatterns : gp = JobInit(pat)

NextJob ==
    \/ \E pat \in SetPatterns : job_set_pattern(pat)
    \/ \E o \in JobOptions : job_start(o)
    \/ job_combine
    \/ job_resample
    \/ job_optimize
    \/ job_execute

SpecJob == InitJob /\ [][NextJob]_vars

\* pen commands sent to the servo by any of the code paths
InitServo ==
    /\ InitEngineIdle /\ InitCtlIdle /\ InitPMIdle /\ InitLegacyIdle
    /\ feed_draw = CfgFeedDraw
    /\ wi = NoWait
    /\ gp = ServoStart

NextServo ==
    \/ \E pos \in PenGrid : sv_issue_servo(pos)
    \/ \E value \in PenGrid : sv_apply_pen_height(value)
    \/ sv_pen_up
    \/ sv_pen_down

SpecServo == InitServo /\ [][NextServo]_vars

\* the read loop of one command's response
InitCmd ==
    /\ InitEngineIdle /\ InitCtlIdle /\ InitPMIdle /\ InitLegacyIdle
    /\ feed_draw = CfgFeedDraw
    /\ wi = NoWait
    /\ \E impl \in CmdImpls : gp = CmdStart(impl)

NextCmd ==
    \E raw \in DeviceLines, dt \in 0..ReadTimeout :
        grbl_read(raw, dt) \/ ctl_read(raw, dt)

SpecCmd == InitCmd /\ [][NextCmd]_vars

\* threads calling a freshly constructed GRBLController
InitConn ==
    /\ InitEngineIdle /\ InitCtlIdle /\ InitPMIdle /\ InitLegacyIdle
    /\ feed_draw = CfgFeedDraw
    /\ wi = NoWait
    /\ gp = ConnStart

NextConn ==
    \E t \in ConnThreads :
        \/ \E top \in { "connect", "disconnect", "send_command" }, port \in ConnPorts :
              conn_call(t, top, port)
        \/ c_lock(t)
        \/ c_open(t)
        \/ s_lock(t)
        \/ s_io(t)
        \/ d_lock(t)
        \/ d_close(t)

SpecConn == InitConn /\ [][NextConn]_vars

\* a started MotionWorker with nothing queued
InitLive ==
    /\ InitEngineIdle /\ InitCtlIdle /\ InitPMIdle /\ InitLegacyIdle
    /\ feed_draw = CfgFeedDraw
    /\ wi = NoWait
    /\ gp = LiveStart

NextLive ==
    \/ w_get
    \/ w_check
    \/ w_take
    \/ w_send
    \/ w_wait
    \/ ql_test
    \/ ql_store
    \/ rs_busy
    \/ rs_items
    \/ rs_barrier

SpecLive == InitLive /\ [][NextLive]_vars

\* a legacy Renderer after construction
InitLRun ==
    /\ InitEngineIdle /\ InitCtlIdle /\ InitPMIdle /\ InitLegacyIdle
    /\ feed_draw = CfgFeedDraw
    /\ wi = NoWait
    /\ \E z_mode \in LegacyModes, flush_every \in 1..MaxFlush :
          gp = LRunStart(z_mode, flush_every)

LRunWorker == lr_check \/ lr_wait \/ lr_wake \/ lr_cmd

NextLRun ==
    \/ \E nseg \in 1..MaxRunSegs, return_home \in BOOLEAN :
          \E needs \in [1..nseg -> BOOLEAN] :
              /\ (gp # << >> /\ gp.op = "lrun" /\ gp.z_mode # "threshold")
                     => \A i \in 1..nseg : ~needs[i]
              /\ lr_run(nseg, needs, return_home)
    \/ lr_check
    \/ lr_wait
    \/ lr_wake
    \/ lr_cmd
    \/ lr_request_cancel
    \/ lr_request_pause
    \/ lr_request_resume

SpecLRun == InitLRun /\ [][NextLRun]_vars

\* Either a run of PlotRenderer or a run of the legacy Renderer
InitStrokeEnd == InitRun \/ InitLRun

NextStrokeEnd ==
    \/ gp = << >> /\ Engine(1)
    \/ gp = << >> /\ set_stop_event
    \/ NextLRun

SpecStrokeEnd == InitStrokeEnd /\ [][NextStrokeEnd]_vars

\* the steps of the PlotManager worker thread
PMWorker ==
    \/ pw_begin
    \/ pw_tp_check
    \/ pw_tp_feed
    \/ pw_pl_check
    \/ pw_wait_if_paused
    \/ pw_pl_up
    \/ pw_pl_rapid
    \/ pw_pl_down
    \/ pw_seg_check
    \/ pw_seg_move
    \/ pw_pl_lift
    \/ pw_fin_pen
    \/ pw_fin_state
    \/ pw_fin_status
    \/ pw_fin_clear

\* the calls made on a PlotManager by the other threads
PMCalls ==
    \/ \E job \in JobSet : pm_start_launch(job)
    \/ pm_start_state
    \/ pm_start_status
    \/ pm_stop_call
    \/ pm_pause_call
    \/ pm_resume_call
    \/ gc_disconnect

\* Either a PlotManager with its worker, or a legacy Renderer with the thread
\* running it. A started thread that can take a step takes it: the
\* PlotManager worker polls its events every 0.1 s, the Renderer's thread
\* returns from Event.wait() once notified.
InitStop == InitPM \/ InitLRun

NextStop ==
    \/ gp = << >> /\ PMCalls
    \/ gp = << >> /\ PMWorker
    \/ NextLRun

SpecStopFair ==
    /\ InitStop /\ [][NextStop]_vars
    /\ WF_vars(gp = << >> /\ PMWorker)
    /\ WF_vars(LRunWorker)

-----------------------------------------------------------------------------
\* ------------------------------------------------------------------------
\* Properties
\* ------------------------------------------------------------------------

\* C1: under every interleaving of concurrent start_job calls at most one job
\* worker is alive at any time.
C1_AtMostOneWorker == Cardinality({ j \in Jobs : is_alive(j) }) <= 1

\* the pen, travel and draw commands among calls[from .. Len(calls)]
RECURSIVE Commands(_, _)
Commands(calls, from) ==
    IF from > Len(calls) THEN << >>
    ELSE IF calls[from][1] = "wait_idle" THEN Commands(calls, from + 1)
    ELSE <<calls[from]>> \o Commands(calls, from + 1)

\* C2: once the stop event of a run is set, its worker issues at most one more
\* pen, travel or draw command (the one in flight).
C2_StopBeforeEveryCommand ==
    \A j \in Jobs :
        stop_set[j] => Len(Commands(wk[j].calls, calls_at_stop[j] + 1)) <= 1

\* C3: while the job is paused (and not stopped) the PlotManager worker has sent
\* at most one command since pause() was called.
C3_PauseHoldsWorker ==
    (pm_pause /\ ~pm_stop /\ is_running) => Len(pm_sent) <= sent_at_pause + 1

\* C4: when the stop event was set before the home-return step of a run began,
\* the home-return step is not executed: the worker never stands between the
\* home pen lift and the home rapid with a lift issued after the stop.
C4_NoHomeAfterStop ==
    \A j \in Jobs :
        (wk[j].pc = "home_move" /\ stop_set[j]) =>
            calls_at_stop[j] >= Len(wk[j].calls)

\* C5: once no job worker is alive (and no start_job call is under way)
\* job_state is neither "cancelling" nor "running"; stated for histories with a
\* single start_job call.
C5_NoLiveStateWithoutWorker ==
    ( /\ cpc[1] \in { "returned", "raised" }
      /\ \A c \in Jobs : c # 1 => cpc[c] = "ready"
      /\ ~AnyWorkerAlive )
    => job_state \notin { "cancelling", "running" }

\* C6: after a connection error during a job, once the worker has terminated
\* (start() has returned and nobody called stop/pause/resume) the state is
\* "error" and the last status is the device error.
C6_ErrorStateKept ==
    (pw.pc = "dead" /\ pw.failed /\ start_pc = "idle" /\ nctl = 0)
    => (pm_state = "error" /\ last_status = "Device error")

\* C7: no manual helper (goto, jog, pen, set-origin) reaches the device while a
\* job worker is alive.
C7_ManualBlockedDuringRun == manual_in_run = 0

CancelRequests == { "stop_job", "stop", "request_cancel" }
ResumeRequests == { "resume", "request_resume" }

\* C8: every cancel that took effect is followed at once by the feed-hold byte
\* '!' on the serial port, and every resume that released a pause by the
\* cycle-start byte '~'.
C8_RealtimeBytes ==
    \A n \in 1..Len(rt_log) :
        /\ rt_log[n] \in CancelRequests =>
              (n < Len(rt_log) /\ rt_log[n + 1] = "!")
        /\ rt_log[n] \in ResumeRequests =>
              (n < Len(rt_log) /\ rt_log[n + 1] = "~")

\* the travel and draw commands of a call log
RECURSIVE Motion(_)
Motion(calls) ==
    IF calls = << >> THEN << >>
    ELSE IF Head(calls)[1] \in { "move_xy", "draw_xy" }
         THEN <<Head(calls)>> \o Motion(Tail(calls))
         ELSE Motion(Tail(calls))

\* point n of a stroke in its drawing orientation
OrientedPoint(it, n) ==
    IF it.rev THEN it.pts[Len(it.pts) - n + 1] ELSE it.pts[n]

RECURSIVE StrokeDraws(_, _)
StrokeDraws(it, n) ==
    IF n > Len(it.pts) THEN << >>
    ELSE << <<"draw_xy", OrientedPoint(it, n)[1], OrientedPoint(it, n)[2]>> >>
         \o StrokeDraws(it, n + 1)

\* the motion sequence the specification prescribes for a pattern
RECURSIVE ExpectedMotion(_, _)
ExpectedMotion(pat, filter) ==
    IF pat = << >> THEN << >>
    ELSE LET it == Head(pat)
             executable == Len(it.pts) >= 2 /\ (filter.none \/ it.pen_id \in filter.pens)
         IN  ( IF executable
               THEN << <<"move_xy", OrientedPoint(it, 1)[1], OrientedPoint(it, 1)[2]>> >>
                    \o StrokeDraws(it, 2)
               ELSE << >> )
             \o ExpectedMotion(Tail(pat), filter)

\* C9: a run that has completed issued exactly: per executable stroke, in
\* order, one rapid to its first point in drawing orientation and one draw
\* per subsequent point; then, with return_home, one rapid to (0, 0).
C9_MotionSequence ==
    \A j \in Jobs :
        wk[j].pc = "returned" =>
            Motion(wk[j].calls) =
                ExpectedMotion(wk[j].pattern, wk[j].pen_filter)
                \o (IF wk[j].return_home THEN << <<"move_xy", 0, 0>> >> ELSE << >>)

\* a completed, uncancelled run with return_home over two executable strokes,
\* the first of them drawn reversed
C9_Witness ==
    /\ wk[1].pc = "returned"
    /\ ~stop_set[1]
    /\ wk[1].return_home
    /\ Len(wk[1].pattern) = 2
    /\ wk[1].pattern[1].rev /\ Len(wk[1].pattern[1].pts) = 3
    /\ Len(wk[1].pattern[2].pts) >= 2
    /\ Len(Motion(wk[1].calls)) >= 6

\* C10: with an unknown z_mode the run issues no pen or motion command.
C10_UnknownModeBeforeCommands ==
    \A j \in Jobs : opts.z_mode \notin ZModes => Len(wk[j].calls) = 0

\* C11: a serial I/O failure raised while wait_idle polls the status is
\* surfaced at once: it is the last thing the call saw and the call has ended
\* raising that failure (not a timeout).
C11_IOFailureSurfaced ==
    \A n \in 1..Len(wi.replies) :
        wi.replies[n] = "SerialException" =>
            (n = Len(wi.replies) /\ wi.pc = "raised" /\ wi.exc = "SerialException")

\* wait_idle returns only after an Idle reply, and raises only TimeoutError,
\* only once the timeout has elapsed
wait_idle_contract ==
    /\ wi.pc = "returned" =>
          (wi.replies # << >> /\ Upper(wi.replies[Len(wi.replies)]) = "IDLE")
    /\ wi.pc = "raised" => (wi.exc = "TimeoutError" /\ wi.elapsed >= WaitTimeout)

\* C12: when a wait for idle timed out inside a job (the only job started), then
\* once its worker has terminated job_state is "error" and last_error is the
\* timeout.
C12_TimeoutEndsInError ==
    ( /\ wk[1].pc = "dead" /\ wk[1].exc = "TimeoutError"
      /\ \A c \in Jobs : c # 1 => cpc[c] = "ready" )
    => (job_state = "error" /\ last_error = "TimeoutError")

\* the number of draw commands in a call log
RECURSIVE NDraws(_)
NDraws(calls) ==
    IF calls = << >> THEN 0
    ELSE (IF Head(calls)[1] = "draw_xy" THEN 1 ELSE 0) + NDraws(Tail(calls))

\* sum over the executed strokes of max(0, point_count - 1)
RECURSIVE PrescribedTotal(_, _)
PrescribedTotal(pat, filter) ==
    IF pat = << >> THEN 0
    ELSE (IF filter.none \/ Head(pat).pen_id \in filter.pens
          THEN (IF Len(Head(pat).pts) > 1 THEN Len(Head(pat).pts) - 1 ELSE 0)
          ELSE 0)
         + PrescribedTotal(Tail(pat), filter)

\* C13: once a run has set up its progress report, the total is the sum over
\* the executed strokes of max(0, point_count - 1); the completed count is the
\* number of drawn segments (less the one whose report is still pending), never
\* exceeds the total, is what the progress callback received, and equals the
\* total when the run has completed.
C13_ProgressReport ==
    \A j \in Jobs :
        wk[j].pc \notin { "none", "run" } =>
            /\ wk[j].total = PrescribedTotal(wk[j].pattern, wk[j].pen_filter)
            /\ wk[j].progressed <= wk[j].total
            /\ wk[j].progressed <= NDraws(wk[j].calls)
            /\ NDraws(wk[j].calls) <= wk[j].progressed + 1
            /\ progress = IF wk[j].progressed = 0 THEN <<0, 0>>
                          ELSE <<wk[j].progressed, wk[j].total>>
            /\ wk[j].pc = "returned" => wk[j].progressed = wk[j].total

\* a completed, uncancelled run over a one-point stroke and a three-point
\* stroke: two segments reported out of two
C13_Witness ==
    /\ wk[1].pc = "returned"
    /\ ~stop_set[1]
    /\ Len(wk[1].pattern) = 2
    /\ Len(wk[1].pattern[1].pts) = 1
    /\ Len(wk[1].pattern[2].pts) = 3
    /\ progress = <<2, 2>>

\* the feeds of the draw commands when the override of every stroke handed to
\* the runner counts, whether or not the stroke is drawn
RECURSIVE FeedsByAnyStroke(_, _, _)
FeedsByAnyStroke(pat, filter, feed) ==
    IF pat = << >> THEN << >>
    ELSE LET it == Head(pat)
             inrun == filter.none \/ it.pen_id \in filter.pens
             f == IF inrun /\ it.feed_draw # << >> THEN it.feed_draw[1] ELSE feed
         IN  (IF inrun /\ Len(it.pts) >= 2
              THEN [n \in 1..(Len(it.pts) - 1) |-> f] ELSE << >>)
             \o FeedsByAnyStroke(Tail(pat), filter, f)

\* C14 as stated: the feed of every draw command of stroke k is the override of
\* the latest stroke j <= k of the run that has one (drawn or not), or the
\* device's draw feed at run start.
C14_OverrideOfAnyStroke ==
    \A j \in Jobs :
        wk[j].pc = "returned" =>
            wk[j].draw_feeds =
                FeedsByAnyStroke(wk[j].pattern, wk[j].pen_filter, wk[j].feed0)

\* the feeds of the draw commands of a pattern, stroke by stroke: an executed
\* stroke with an override switches to it, one without keeps the feed in force
RECURSIVE PrescribedFeeds(_, _, _)
PrescribedFeeds(pat, filter, feed) ==
    IF pat = << >> THEN << >>
    ELSE LET it == Head(pat)
             executed == Len(it.pts) >= 2 /\ (filter.none \/ it.pen_id \in filter.pens)
             f == IF executed /\ it.feed_draw # << >> THEN it.feed_draw[1] ELSE feed
         IN  (IF executed THEN [n \in 1..(Len(it.pts) - 1) |-> f] ELSE << >>)
             \o PrescribedFeeds(Tail(pat), filter, f)

\* C14, amended: the feed of every draw command of stroke k is the override of the
\* latest executed stroke j <= k (at least 2 points) that has one, or the device's draw feed at
\* run start if there is none; the feeds issued so far are a prefix of that
\* sequence, and all of it once the run has completed.
C14_FeedOverridePersists ==
    \A j \in Jobs :
        wk[j].pc \notin { "none", "run" } =>
            LET want == PrescribedFeeds(wk[j].pattern, wk[j].pen_filter, wk[j].feed0)
                got  == wk[j].draw_feeds
            IN  /\ Len(got) <= Len(want)
                /\ \A n \in 1..Len(got) : got[n] = want[n]
                /\ wk[j].pc = "returned" => got = want

\* a completed run whose first stroke carries an override (1500) and whose
\* second has none, on a device configured otherwise: all draws at 1500
C14_Witness ==
    /\ wk[1].pc = "returned"
    /\ wk[1].feed0 = CfgFeedDraw
    /\ Len(wk[1].pattern) = 2
    /\ wk[1].pattern[1].feed_draw = <<1500>>
    /\ wk[1].pattern[2].feed_draw = << >>
    /\ wk[1].draw_feeds = <<1500, 1500, 1500>>

\* the positions of a run inside _run_polyline, past its length test
StrokePcs == { "travel_lift", "travel_move", "first_pen", "seg_check", "seg_pen",
               "seg_draw", "seg_flush", "post_wait", "post_lift" }

\* the commands of the return-home step
HomeCalls == { <<"pen_set", HeightOne>>, <<"move_xy", 0, 0>> }

\* C15: a stroke with fewer than 2 points is never executed: the runner is
\* never at work on one; a run whose strokes are all that short issues nothing
\* but the return-home commands, reports no progress and has total 0; and
\* the stroke export lists exactly the strokes with at least 2 points.
C15_ShortStrokeSkipped ==
    \A j \in Jobs :
        wk[j].pc \notin { "none", "run" } =>
            /\ wk[j].pc \in StrokePcs => Len(wk[j].items[wk[j].k].pts) >= 2
            /\ (\A n \in 1..Len(wk[j].items) : Len(wk[j].items[n].pts) < 2) =>
                  /\ \A n \in 1..Len(wk[j].calls) : wk[j].calls[n] \in HomeCalls
                  /\ wk[j].total = 0
                  /\ wk[j].progressed = 0
                  /\ progress = <<0, 0>>
            /\ Len(strokes(wk[j].pattern)) =
                  Cardinality({ n \in 1..Len(wk[j].pattern) :
                                  Len(wk[j].pattern[n].pts) >= 2 })
            /\ \A n \in 1..Len(strokes(wk[j].pattern)) :
                  Len(strokes(wk[j].pattern)[n].points) >= 2

\* a completed run over a one-point stroke followed by a drawn stroke: the
\* first command is the lift before the travel to the second stroke
C15_Witness ==
    /\ wk[1].pc = "returned"
    /\ Len(wk[1].items) = 2
    /\ Len(wk[1].items[1].pts) = 1
    /\ Len(wk[1].items[2].pts) = 2
    /\ wk[1].calls[2] = <<"move_xy", wk[1].items[2].pts[1][1], wk[1].items[2].pts[1][2]>>
    /\ Len(strokes(wk[1].pattern)) = 1

\* C16: every stroke placed by optimize_order_nn starts, by endpoints(), at an
\* endpoint nearest to the position it was chosen from, over all strokes then
\* unvisited, and the position then advances to its other endpoint.
C16_NearestEndpointChosen ==
    (gp # << >> /\ gp.op = "nn") =>
        \A k \in 1..Len(gp.ordered) :
            /\ dist(gp.ordered[k].from, endpoints(gp.ordered[k].it)[1])
                  = gp.ordered[k].nearest
            /\ (IF k < Len(gp.ordered) THEN gp.ordered[k + 1].from ELSE gp.cur)
                  = endpoints(gp.ordered[k].it)[2]

\* C17: the travel estimate after optimize_order_nn is at most the estimate
\* of the original order from the same start point; stated for patterns none
\* of whose strokes had its reversed flag set before the pass.
C17_TravelNeverIncreases ==
    ( /\ gp # << >> /\ gp.op = "nn" /\ gp.pc = "done"
      /\ \A n \in 1..Len(gp.input) : ~gp.input[n].rev )
    => travel_estimate(gp.items, gp.start) <= travel_estimate(gp.input, gp.start)

\* C18: optimize_order_nn outputs a permutation of its input: the same number
\* of strokes, every input index once, each stroke unchanged but for its
\* reversed flag; total_length and bounding_box are unchanged; the loop ran
\* once per stroke.
C18_Permutation ==
    (gp # << >> /\ gp.op = "nn" /\ gp.pc = "done") =>
        /\ Len(gp.items) = Len(gp.input)
        /\ { gp.ordered[k].idx : k \in 1..Len(gp.ordered) } = 1..Len(gp.input)
        /\ \A k \in 1..Len(gp.items) :
              [gp.items[k] EXCEPT !.rev = FALSE]
                = [gp.input[gp.ordered[k].idx] EXCEPT !.rev = FALSE]
        /\ total_length(gp.items) = total_length(gp.input)
        /\ bounding_box(gp.items) = bounding_box(gp.input)
        /\ gp.iters = Len(gp.input)

\* a finished pass over three strokes that changed both the order and a flag
C18_Witness ==
    /\ gp # << >> /\ gp.op = "nn" /\ gp.pc = "done"
    /\ Len(gp.input) = 3
    /\ gp.ordered[1].idx # 1
    /\ \E k \in 1..3 : gp.items[k].rev # gp.input[gp.ordered[k].idx].rev
    /\ total_length(gp.items) > 0

\* two strokes touch within tol in one of the four configurations: tail-to-head,
\* tail-to-tail, head-to-tail, head-to-head (on their drawing orientation)
Adjacent(a, b, tol) ==
    LET pa == DrawPts(a)
        pb == DrawPts(b)
    IN  \/ dist(pa[Len(pa)], pb[1]) <= tol
        \/ dist(pa[Len(pa)], pb[Len(pb)]) <= tol
        \/ dist(pa[1], pb[Len(pb)]) <= tol
        \/ dist(pa[1], pb[1]) <= tol

\* C19: a pattern of two strokes of the same pen whose endpoints lie within
\* the tolerance in any of the four configurations comes out of
\* combine_endpoints as one stroke of len(a) + len(b) - 1 points.
C19_FourConfigurationsMerged ==
    ( /\ gp # << >> /\ gp.op = "combine" /\ gp.pc = "done"
      /\ gp.impl = "geometry"
      /\ Len(gp.input) = 2
      /\ gp.input[1].pts # << >> /\ gp.input[2].pts # << >>
      /\ gp.input[1].pen_id = gp.input[2].pen_id
      /\ Adjacent(gp.input[1], gp.input[2], gp.tol) )
    => ( /\ Len(gp.items) = 1
         /\ Len(gp.items[1].pts)
              = Len(gp.input[1].pts) + Len(gp.input[2].pts) - 1 )

\* the strokes of a pattern that have points
NonEmpty(items) == Cardinality({ n \in 1..Len(items) : items[n].pts # << >> })

\* C20: the merge count of the report is the number of splices performed
\* (non-empty input strokes minus output strokes), and the pen-lift counts
\* are max(0, stroke_count - 1) before and after.
C20_ReportCounts ==
    (gp # << >> /\ gp.op = "combine" /\ gp.pc = "done" /\ gp.impl = "geometry") =>
        /\ gp.report.merges = gp.splices
        /\ gp.report.merges = NonEmpty(gp.input) - Len(gp.items)
        /\ gp.report.before = Max(0, Len(gp.input) - 1)
        /\ gp.report.after = Max(0, Len(gp.items) - 1)

\* points of a list of strokes or chains
RECURSIVE PointCount(_)
PointCount(ss) == IF ss = << >> THEN 0 ELSE Len(Head(ss).pts) + PointCount(Tail(ss))

\* the chains (non-empty input strokes) an output stroke was built from
Parts(m) == { n \in 1..Len(gp.chains) : gp.owner[n] = m }

RECURSIVE PartsPoints(_)
PartsPoints(S) ==
    IF S = {} THEN 0
    ELSE LET n == CHOOSE x \in S : TRUE
         IN  Len(gp.chains[n].pts) + PartsPoints(S \ {n})

\* C21: combine_endpoints (either implementation) puts every non-empty input
\* stroke into exactly one output stroke, of the same pen index; an output
\* stroke holds only points of the strokes it was built from, one point
\* fewer per splice; the total point count drops by the number of splices.
C21_PenGroupsKept ==
    (gp # << >> /\ gp.op = "combine" /\ gp.pc = "done") =>
        /\ \A n \in 1..Len(gp.chains) :
              /\ gp.owner[n] \in 1..Len(gp.items)
              /\ gp.items[gp.owner[n]].pen_id = gp.chains[n].pen_id
        /\ \A m \in 1..Len(gp.items) :
              /\ Parts(m) # {}
              /\ \A k \in 1..Len(gp.items[m].pts) :
                    \E n \in Parts(m) : \E q \in 1..Len(gp.chains[n].pts) :
                        gp.chains[n].pts[q] = gp.items[m].pts[k]
              /\ Len(gp.items[m].pts) = PartsPoints(Parts(m)) - (Cardinality(Parts(m)) - 1)
        /\ PointCount(gp.items) = PointCount(gp.input) - gp.splices

\* a pass over strokes of two pens that spliced at least once
C21_Witness ==
    /\ gp # << >> /\ gp.op = "combine" /\ gp.pc = "done"
    /\ gp.splices >= 1
    /\ \E a, b \in 1..Len(gp.items) : gp.items[a].pen_id # gp.items[b].pen_id

\* s is obtained from t by deleting elements
RECURSIVE IsSubseq(_, _)
IsSubseq(s, t) ==
    IF s = << >> THEN TRUE
    ELSE IF t = << >> THEN FALSE
    ELSE IF Head(s) = Head(t) THEN IsSubseq(Tail(s), Tail(t))
    ELSE IsSubseq(s, Tail(t))

\* C22: the result of _rdp is a subsequence of its input (so holds no new
\* point), begins and ends with the input's first and last points, and has
\* at least 2 points whenever the input has.
C22_RdpSubsequence ==
    (gp # << >> /\ gp.op = "rdp" /\ gp.pc = "done") =>
        /\ IsSubseq(gp.out, gp.pts)
        /\ \A k \in 1..Len(gp.out) : \E q \in 1..Len(gp.pts) : gp.pts[q] = gp.out[k]
        /\ gp.pts # << >> =>
              /\ gp.out # << >>
              /\ gp.out[1] = gp.pts[1]
              /\ gp.out[Len(gp.out)] = gp.pts[Len(gp.pts)]
        /\ Len(gp.pts) >= 2 => Len(gp.out) >= 2

\* a simplification that dropped a point and kept an interior one
C22_Witness ==
    /\ gp # << >> /\ gp.op = "rdp" /\ gp.pc = "done"
    /\ Len(gp.out) < Len(gp.pts)
    /\ Len(gp.out) > 2

C24_OnlyPolylines ==
    (gp # << >> /\ gp.op = "add" /\ gp.ncalls > 0) =>
        /\ \A k \in 1..Len(gp.items) : gp.items[k].kind = "Polyline"
        /\ (\E k \in 1..Len(gp.objs) :
                gp.objs[k].kind \notin { "Line", "Circle", "Polyline" })
              <=> gp.ret = "TypeError"
        /\ gp.ret \in { "self", "TypeError" }

\* the value of the controller's stored pattern
StoredValue(g) == Values(g.objs, g.pats[g.stored])

\* the strokes a job with options o draws for a pattern value
JobGeometry(items, o) ==
    LET a == IF o.combine THEN CombineItems(items, 0) ELSE items
        b == IF o.resample
             THEN [n \in 1..Len(a) |-> [a[n] EXCEPT !.pts = resample_pts(@, 1)]]
             ELSE a
        c == IF o.optimize
             THEN (LET ord == NNLoop(GO, [n \in 1..Len(b) |-> [it |-> b[n], idx |-> n]],
                                     << >>)
                   IN  [n \in 1..Len(ord) |-> ord[n].it])
             ELSE b
    IN  [n \in 1..Len(c) |-> DrawPts(c[n])]

\* C25: a job runs on a deep copy: the value of the controller's stored
\* pattern (order, points, reversed flags) changes only by set_pattern,
\* whatever passes a job applies, and a finished job has drawn the geometry
\* of the pattern stored when it started, set_pattern calls during the run
\* notwithstanding.
C25_JobRunsOnCopy ==
    [][ (gp # << >> /\ gp.op = "job") =>
          /\ StoredValue(gp') # StoredValue(gp) => gp'.nsets # gp.nsets
          /\ (gp.pc = "exec" /\ gp'.pc = "idle") =>
                gp'.executed = JobGeometry(gp'.snap, gp'.options) ]_vars

\* a finished job with all three passes that changed its copy, with a
\* set_pattern call during the run
C25_Witness ==
    /\ gp # << >> /\ gp.op = "job" /\ gp.pc = "idle" /\ gp.njobs >= 1
    /\ gp.options.combine /\ gp.options.resample /\ gp.options.optimize
    /\ gp.set_in_run
    /\ Len(gp.executed) >= 1
    /\ Len(gp.executed) < Len(gp.snap)
    /\ \E n \in 1..Len(gp.snap) : gp.snap[n].rev

\* C26: every PWM value sent for a pen position is the arcsine-corrected
\* value of that position (no path uses the plain linear map for an
\* intermediate position); the values sent are monotonic in the position,
\* with position 0 giving s_down and position 1 giving s_up.
C26_ArcsineMapping ==
    (gp # << >> /\ gp.op = "servo") =>
        /\ \A k \in 1..Len(gp.sent) :
              /\ gp.sent[k].pwm = servo_map(gp.sent[k].pos)
              /\ gp.sent[k].pos = 0 => gp.sent[k].pwm = s_down
              /\ gp.sent[k].pos = HeightOne => gp.sent[k].pwm = s_up
        /\ \A j, k \in 1..Len(gp.sent) :
              gp.sent[j].pos <= gp.sent[k].pos => gp.sent[j].pwm >= gp.sent[k].pwm

IsPenSet(c) == c[1] = "pen_set"

\* the target of the latest pen command among calls[1..n-1] (-1: none)
RECURSIVE LastPenBefore(_, _)
LastPenBefore(calls, n) ==
    IF n <= 1 THEN -1
    ELSE IF IsPenSet(calls[n - 1]) THEN calls[n - 1][2]
    ELSE LastPenBefore(calls, n - 1)

\* segment record s of worker r was drawn right after a pen command of the
\* segment loop (the stroke's first command precedes the loop)
LoopCommand(r, s) ==
    /\ IsPenSet(r.calls[s.n - 1])
    /\ s.i > 1 \/ IsPenSet(r.calls[s.n - 2])

\* C27: in the threshold policy a pen command is issued before a segment
\* exactly when the height at the segment's midpoint differs from the held
\* height (that of the last pen command of the stroke) by more than the
\* threshold, and it sets that height; so at every drawn segment the held
\* height is within the threshold of the segment's height.
C27_ThresholdPolicy ==
    opts.z_mode = "threshold" =>
        \A j \in Jobs : \A q \in 1..Len(wk[j].segs) :
            LET r == wk[j]
                s == r.segs[q]
                z == SegZ(r.items[s.k], s.i)
                held == LastPenBefore(r.calls, IF LoopCommand(r, s) THEN s.n - 1 ELSE s.n)
            IN  /\ held >= 0
                /\ LoopCommand(r, s) <=> Abs(z - held) > z_threshold
                /\ LoopCommand(r, s) => r.calls[s.n - 1][2] = z
                /\ Abs(LastPenBefore(r.calls, s.n) - z) <= z_threshold

\* a stroke drawn with one segment on the held height and a later one
\* after a new pen command
C27_Witness ==
    /\ opts.z_mode = "threshold"
    /\ \E a, b \in 1..Len(wk[1].segs) :
          /\ wk[1].segs[a].k = wk[1].segs[b].k
          /\ 1 < wk[1].segs[a].i /\ wk[1].segs[a].i < wk[1].segs[b].i
          /\ ~LoopCommand(wk[1], wk[1].segs[a])
          /\ LoopCommand(wk[1], wk[1].segs[b])

\* the position the engine holds when it travels to the stroke of travel
\* record q: the start point, or the last drawn point of the stroke before
TravelFrom(r, q) ==
    IF q = 1 THEN <<0, 0>>
    ELSE LET pts == DrawPts(r.items[r.travels[q - 1].k])
         IN  pts[Len(pts)]

\* C28: every rapid move to a stroke's first point comes right after a pen
\* command to min(1, compensated height at the engine's current position
\* with zero offset + lift_delta), the current position being the start
\* point for the first stroke and the previous stroke's last point after.
C28_LiftBeforeTravel ==
    \A j \in Jobs : \A q \in 1..Len(wk[j].travels) :
        LET r == wk[j]
            t == r.travels[q]
            from == TravelFrom(r, q)
            p0 == DrawPts(r.items[t.k])[1]
        IN  /\ t.n >= 2
            /\ r.calls[t.n] = <<"move_xy", p0[1], p0[2]>>
            /\ r.calls[t.n - 1] =
                  <<"pen_set",
                    Min(HeightOne, compensated_pos(from[1], from[2], 0) + lift_delta)>>

\* a second stroke reached from a point where the travel height is below 1
C28_Witness ==
    /\ Len(wk[1].travels) >= 2
    /\ TravelFrom(wk[1], 2) # <<0, 0>>
    /\ wk[1].calls[wk[1].travels[2].n - 1][2] < HeightOne

\* draw commands among calls[1..n] issued after the last wait_idle
RECURSIVE DrawsSinceWait(_, _)
DrawsSinceWait(calls, n) ==
    IF n = 0 THEN 0
    ELSE IF calls[n][1] = "wait_idle" THEN 0
    ELSE (IF calls[n][1] = "draw_xy" THEN 1 ELSE 0) + DrawsSinceWait(calls, n - 1)

\* C29: at every point of a run the number of draw commands issued since
\* the engine last waited for idle is at most flush_every, in every height
\* policy and across stroke boundaries.
C29_BoundedInFlight ==
    \A j \in Jobs : \A n \in 1..Len(wk[j].calls) :
        DrawsSinceWait(wk[j].calls, n) <= opts.flush_every

\* two strokes drawn with flush_every = 2, the first of three segments
C29_Witness ==
    /\ opts.flush_every = 2
    /\ Len(wk[1].segs) >= 4
    /\ wk[1].segs[3].i = 3
    /\ wk[1].segs[4].k # wk[1].segs[3].k
    /\ DrawsSinceWait(wk[1].calls, wk[1].segs[2].n) = 2

\* C30: the read loop of a response returns at the first line that starts
\* with "ok" in any case, and otherwise once the read timeout has elapsed,
\* whatever the device sends (a stream of non-empty lines that are not "ok"
\* included): it is never back at the head of its loop after an "ok" line
\* or with the timeout exceeded; the lines it holds are non-empty and only
\* the last can be the terminator.
C30_ReadLoopReturns ==
    (gp # << >> /\ gp.op = "cmd") =>
        /\ gp.pc = "loop" =>
              /\ gp.elapsed <= ReadTimeout
              /\ \A k \in 1..Len(gp.lines) : ~StartsWithOk(gp.lines[k])
        /\ gp.pc = "returned" =>
              \/ gp.lines # << >> /\ StartsWithOk(gp.lines[Len(gp.lines)])
              \/ gp.elapsed > ReadTimeout
        /\ \A k \in 1..Len(gp.lines) :
              /\ gp.lines[k] # << >>
              /\ k < Len(gp.lines) => ~StartsWithOk(gp.lines[k])

\* C31: connect never blocks forever on the controller's own lock: no thread
\* is waiting to acquire the lock (in send_command or disconnect) while it
\* holds that lock itself.
C31_ConnectTerminates ==
    (gp # << >> /\ gp.op = "conn") =>
        \A t \in ConnThreads :
            ~(gp.th[t].pc \in { "s_lock", "d_lock" } /\ gp.lock = t)


\* C32: a live-position move is sent only while no scripted job is active
\* (between run_script and the processing of its barrier none is sent), no
\* discarded request is sent, and live targets are sent in the order they
\* were requested, none of them twice.
C32_LiveOnlyWhenIdle ==
    (gp # << >> /\ gp.op = "live") =>
        /\ \A i \in 1..Len(gp.sent) :
              gp.sent[i].kind = "live" =>
                  /\ gp.sent[i].active = 0
                  /\ gp.sent[i].tgt \notin gp.dropped
        /\ \A i, j \in 1..Len(gp.sent) :
              (i < j /\ gp.sent[i].kind = "live" /\ gp.sent[j].kind = "live")
                  => gp.sent[i].tgt < gp.sent[j].tgt


\* C33: when request_cancel is called while the worker is blocked at a pause
\* checkpoint, the worker issues no further device command in that run.
C33_CancelWhilePausedSilent ==
    (gp # << >> /\ gp.op = "lrun") =>
        (gp.blk => gp.ncmd = gp.cmd_at_cancel)


\* C34: whenever no PlotManager worker thread is alive, the state is "idle"
\* or "error".
C34_NoWorkerMeansIdleOrError ==
    ~is_running => pm_state \in { "idle", "error" }


\* C35: a stop that finds the PlotManager worker at its pause wait, and a
\* request_cancel that finds the Renderer worker blocked in its pause wait,
\* are followed by the termination of that worker, with no resume needed.
C35_StopWhilePausedTerminates ==
    /\ (gp = << >> /\ pw.pc = "pl_wait" /\ pm_stop) ~> (pw.pc = "dead")
    /\ (IF gp = << >> THEN FALSE ELSE gp.op = "lrun" /\ gp.blk)
           ~> (IF gp = << >> THEN TRUE ELSE gp.st # "running")

\* stop() was called on a paused job whose worker was held in
\* _wait_if_paused, and the worker has terminated
C35_Witness ==
    /\ gp = << >> /\ pw.pc = "dead"
    /\ last_status = "Job stopped"
    /\ sent_at_pause = 1 /\ Len(pm_sent) > 1


\* C36: whenever the feed-hold byte '!' has been written, the cycle-resume
\* byte '~' is written before the next motion command (travel or draw) is
\* issued, in the same run or in a later one.
C36_HoldReleasedBeforeMotion ==
    (gp # << >> /\ gp.op = "lrun") => ~gp.held_motion


\* C37: after the last draw command of a stroke the engine calls wait_idle
\* before it issues any pen command: in PlotRenderer every pen command that
\* follows a stroke's last draw has a wait_idle between the two, and the
\* legacy Renderer reaches its post-stroke lift with wait_idle as the latest
\* device command.
C37_WaitBeforePostLift ==
    /\ \A j \in Jobs : \A q \in 1..Len(wk[j].segs) :
          LET r == wk[j]
              s == r.segs[q]
          IN  s.i = Len(DrawPts(r.items[s.k])) - 1 =>
                  \A m \in (s.n + 1)..Len(r.calls) :
                      IsPenSet(r.calls[m]) =>
                          \E x \in (s.n + 1)..(m - 1) : r.calls[x][1] = "wait_idle"
    /\ (gp # << >> /\ gp.op = "lrun" /\ gp.st = "running"
           /\ gp.prog[gp.ip] = "post_lift") => gp.last = "wait_idle"

\* a stroke whose last draw was not followed by a flush, with its lift issued
C37_Witness ==
    \E q \in 1..Len(wk[1].segs) :
        LET r == wk[1]
            s == r.segs[q]
        IN  /\ s.i = Len(DrawPts(r.items[s.k])) - 1
            /\ ~FlushDue(s.i, opts.flush_every)
            /\ Len(r.calls) >= s.n + 2
            /\ r.calls[s.n + 1][1] = "wait_idle"
            /\ IsPenSet(r.calls[s.n + 2])


\* C38: two strokes are spliced only if their pen pressure and feed override
\* are equal: every input stroke has the pressure and the feed of the output
\* stroke that received it.
C38_ParametersKept ==
    (gp # << >> /\ gp.op = "combine" /\ gp.pc = "done") =>
        \A n \in 1..Len(gp.chains) :
            /\ gp.owner[n] \in 1..Len(gp.merged)
            /\ gp.chains[n].pen_pressure = gp.merged[gp.owner[n]].pen_pressure
            /\ gp.chains[n].feed_draw = gp.merged[gp.owner[n]].feed_draw

\* the input stroke an output stroke was started from: its first part
StartedFrom(m) == CHOOSE n \in Parts(m) : \A k \in Parts(m) : n <= k

\* C38 (amended): strokes are spliced by pen index alone, and an output
\* stroke carries the pen pressure and feed override of the input stroke it
\* was started from, whatever those of the strokes spliced onto it.
C38_ParametersOfFirst ==
    (gp # << >> /\ gp.op = "combine" /\ gp.pc = "done") =>
        \A m \in 1..Len(gp.merged) :
            /\ Parts(m) # {}
            /\ gp.merged[m].pen_pressure = gp.chains[StartedFrom(m)].pen_pressure
            /\ gp.merged[m].feed_draw = gp.chains[StartedFrom(m)].feed_draw
            /\ gp.items[m].pen_pressure = gp.merged[m].pen_pressure
            /\ gp.items[m].feed_draw = gp.merged[m].feed_draw
            /\ \A n \in Parts(m) : gp.chains[n].pen_id = gp.merged[m].pen_id

\* a stroke with a feed override that received a stroke of another pressure
C38_Witness ==
    /\ gp # << >> /\ gp.op = "combine" /\ gp.pc = "done"
    /\ \E m \in 1..Len(gp.merged) : \E n \in Parts(m) :
          /\ gp.merged[m].feed_draw = <<1500>>
          /\ gp.chains[n].pen_pressure = 50


\* C39: after one application of the legacy combine_endpoints no two
\* distinct resulting strokes of the same pen have a pair of endpoints
\* within join_tol, and a second application with the same tolerance
\* performs zero merges and leaves the stroke count unchanged.
C39_CombineFixpoint ==
    (gp # << >> /\ gp.op = "combine" /\ gp.impl = "legacy" /\ gp.pc = "done") =>
        /\ \A a, b \in 1..Len(gp.items) :
              (a # b /\ gp.items[a].pen_id = gp.items[b].pen_id) =>
                  \A x \in { 1, Len(gp.items[a].pts) } :
                      \A y \in { 1, Len(gp.items[b].pts) } :
                          dist(gp.items[a].pts[x], gp.items[b].pts[y]) > gp.tol
        /\ gp.round = 2 =>
              /\ gp.report.merges = 0
              /\ Len(gp.items) = Len(gp.input)

\* a second application after a first one that spliced strokes and left
\* more than one stroke of a pen
C39_Witness ==
    /\ gp # << >> /\ gp.op = "combine" /\ gp.impl = "legacy" /\ gp.pc = "done"
    /\ gp.round = 2 /\ gp.first_merges > 0
    /\ \E a, b \in 1..Len(gp.items) :
          a # b /\ gp.items[a].pen_id = gp.items[b].pen_id


\* the latest pen command among sent ("none" if there is none)
RECURSIVE LastPen(_)
LastPen(sent) ==
    IF sent = << >> THEN "none"
    ELSE IF sent[Len(sent)][1] = "M3" THEN sent[Len(sent)][2]
    ELSE LastPen(SubSeq(sent, 1, Len(sent) - 1))

\* C40: when the PlotManager worker has terminated through its cleanup
\* after the job finished or was stopped, at any point of a polyline (and
\* not on a device error), the last pen command sent is pen-up.
C40_PenUpAtEnd ==
    (pw.pc = "dead" /\ ~pw.failed /\ pm_job = << >>) =>
        LastPen(pm_sent) = "up"

\* a job stopped inside its first polyline, after the pen went down and
\* before the first draw move; the worker has terminated through its cleanup
C40_Witness ==
    /\ pw.pc = "dead" /\ ~pw.failed /\ pm_job = << >>
    /\ pw.completed = 1 /\ pw.i = 2
    /\ \E n \in 1..Len(pm_sent) : pm_sent[n] = <<"M3", "down">>

=============================================================================
